---- MODULE Spec2Model ----
(***************************************************************************)
(* graph2md (src/main.go): load and merge graphs, index relationships,     *)
(* resolve domain/subdomain ownership, allocate slugs (pass 1), render     *)
(* one document per entity (pass 2).                                       *)
(*                                                                         *)
(* Strings are sequences of one-character strings, so that toSlug,         *)
(* filepath.Base, filepath.Dir and %d formatting are computed character by *)
(* character.  The empty string and the nil slice are both << >>.          *)
(* Go maps are functions with a finite domain (the keys present).          *)
(***************************************************************************)
EXTENDS Integers, Sequences, FiniteSets, TLC

\* ------------------------------------------------------------------ bounds
\* At most this many document writes fail in one run.
MaxWriteFailures == 1
\* Length of the node lists of the slug family.
MaxSlugNodes == 3
\* Number of graphs of an input of the merge family.
MaxGraphs == 2
\* Number of membership edges of an input of the ownership family.
MaxOwnEdges == 3
\* Largest number of neighbours of the centre in the sampler family.
MaxNeighbors == 32
MaxZooRels == 3
MaxLoadDocs == 2
\* relationships of an input of the index family
MaxIndexRels == 3
\* membership edges of an input of the inference family
MaxInferEdges == 3

\* ------------------------------------------------------- program constants
\* writeGraphData: center + 30 neighbors
GraphDataCap == 31
\* writeMermaidDiagram: maxNodes
MermaidMaxNodes == 15
\* writeFAQSection: "Require minimum 2 FAQs"
MinFAQs == 2
\* writeFAQSection: a file's function list is cut to 10 names
FuncListCap == 10
\* writeFAQSection: every other list is cut to 8 names
ListCap == 8
\* ">= 5" of writeTags
TagThreshold == 5
\* "funcCount >= 10" of writeTags
ComplexFuncs == 10

\* ----------------------------------------------------------------- strings
UpperChars == <<"A","B","C","D","E","F","G","H","I","J","K","L","M",
                "N","O","P","Q","R","S","T","U","V","W","X","Y","Z">>
LowerChars == <<"a","b","c","d","e","f","g","h","i","j","k","l","m",
                "n","o","p","q","r","s","t","u","v","w","x","y","z">>
DigitChars == <<"0","1","2","3","4","5","6","7","8","9">>

Range(f) == {f[i] : i \in DOMAIN f}

\* strings.ToLower, one character
ToLowerCh(c) ==
    IF \E i \in 1..26 : UpperChars[i] = c
    THEN LowerChars[CHOOSE i \in 1..26 : UpperChars[i] = c]
    ELSE c

ToLower(s) == [i \in 1..Len(s) |-> ToLowerCh(s[i])]

\* the character class [a-z0-9] of nonAlnum
IsSlugChar(c) == c \in Range(LowerChars) \cup Range(DigitChars)

RECURSIVE ReplaceRuns(_, _)
\* nonAlnum.ReplaceAllString(s, "-"): every maximal run of characters outside
\* [a-z0-9] becomes one hyphen.  inRun: the previous character was in a run.
ReplaceRuns(s, inRun) ==
    IF s = << >> THEN << >>
    ELSE IF IsSlugChar(Head(s)) THEN <<Head(s)>> \o ReplaceRuns(Tail(s), FALSE)
    ELSE IF inRun THEN ReplaceRuns(Tail(s), TRUE)
    ELSE <<"-">> \o ReplaceRuns(Tail(s), TRUE)

RECURSIVE TrimLeft(_, _)
TrimLeft(s, c) == IF s # << >> /\ Head(s) = c THEN TrimLeft(Tail(s), c) ELSE s

RECURSIVE TrimRight(_, _)
TrimRight(s, c) ==
    IF s # << >> /\ s[Len(s)] = c THEN TrimRight(SubSeq(s, 1, Len(s) - 1), c) ELSE s

\* strings.Trim(s, "-")
Trim(s, c) == TrimRight(TrimLeft(s, c), c)

\* a slug that keeps upper case (faulty variant of toSlug)
toSlugKeepCase(s) == Trim(ReplaceRuns(s, FALSE), "-")

toSlug(s) == Trim(ReplaceRuns(ToLower(s), FALSE), "-")

RECURSIVE Itoa(_)
\* fmt's %d of a natural number
Itoa(n) == IF n < 10 THEN <<DigitChars[n + 1]>>
           ELSE Itoa(n \div 10) \o <<DigitChars[(n % 10) + 1]>>

\* the largest index of c in s, 0 when absent (strings.LastIndex)
LastIndex(s, c) ==
    IF \E i \in 1..Len(s) : s[i] = c
    THEN CHOOSE i \in 1..Len(s) : s[i] = c /\ \A j \in (i+1)..Len(s) : s[j] # c
    ELSE 0

\* filepath.Base
Base(path) ==
    IF path = << >> THEN <<".">>
    ELSE LET p == TrimRight(path, "/")
         IN IF p = << >> THEN <<"/">>
            ELSE SubSeq(p, LastIndex(p, "/") + 1, Len(p))

RECURSIVE Split(_, _)
\* strings.Split(s, c) for a one-character separator
Split(s, c) ==
    IF \A i \in 1..Len(s) : s[i] # c THEN <<s>>
    ELSE LET i == CHOOSE k \in 1..Len(s) : s[k] = c /\ \A j \in 1..(k-1) : s[j] # c
         IN <<SubSeq(s, 1, i - 1)>> \o Split(SubSeq(s, i + 1, Len(s)), c)

RECURSIVE Join(_, _)
\* strings.Join
Join(parts, sep) ==
    IF parts = << >> THEN << >>
    ELSE IF Len(parts) = 1 THEN parts[1]
    ELSE parts[1] \o sep \o Join(Tail(parts), sep)

RECURSIVE CleanElems(_, _, _)
\* the element stack of filepath.Clean: "." and empty elements dropped, ".."
\* removes the element before it, or is dropped at the root
CleanElems(elems, stack, rooted) ==
    IF elems = << >> THEN stack
    ELSE LET e == Head(elems) IN
         IF e = << >> \/ e = <<".">> THEN CleanElems(Tail(elems), stack, rooted)
         ELSE IF e = <<".", ".">> THEN
              IF stack # << >> /\ stack[Len(stack)] # <<".", ".">>
              THEN CleanElems(Tail(elems), SubSeq(stack, 1, Len(stack) - 1), rooted)
              ELSE IF rooted THEN CleanElems(Tail(elems), stack, rooted)
              ELSE CleanElems(Tail(elems), Append(stack, e), rooted)
         ELSE CleanElems(Tail(elems), Append(stack, e), rooted)

\* filepath.Clean
Clean(path) ==
    IF path = << >> THEN <<".">>
    ELSE LET rooted == path[1] = "/"
             body == Join(CleanElems(Split(path, "/"), << >>, rooted), <<"/">>)
             out == IF rooted THEN <<"/">> \o body ELSE body
         IN IF out = << >> THEN <<".">> ELSE out

\* filepath.Dir
Dir(path) == Clean(SubSeq(path, 1, LastIndex(path, "/")))

\* ---------------------------------------------------------------- Go maps
EmptyMap == << >>
Get(m, k) == IF k \in DOMAIN m THEN m[k] ELSE << >>
Has(m, k) == k \in DOMAIN m
Put(m, k, v) == [x \in (DOMAIN m) \cup {k} |-> IF x = k THEN v ELSE m[x]]
\* m[k] = append(m[k], v)
AppendTo(m, k, v) == Put(m, k, Append(Get(m, k), v))

\* ------------------------------------------------- nodes and relationships
\* A property value is a string or a number; getStr sees only strings.
Str(s) == [t |-> "str", v |-> s]
Num(n) == [t |-> "num", v |-> n]

getStr(m, key) ==
    IF key \in DOMAIN m /\ m[key].t = "str" THEN m[key].v ELSE << >>

getNum(m, key) ==
    IF key \in DOMAIN m /\ m[key].t = "num" THEN m[key].v ELSE 0

hasLabel(node, label) == \E i \in 1..Len(node.Labels) : node.Labels[i] = label

Node(id, labels, props) == [ID |-> id, Labels |-> labels, Properties |-> props]
Relationship(type, start, end) == [Type |-> type, StartNode |-> start, EndNode |-> end]
Graph(nodes, rels) == [Nodes |-> nodes, Relationships |-> rels]
EmptyGraph == Graph(<< >>, << >>)


\* an input document, as the decoders of loadGraph see it
Document(readErr, apiOK, hasResult, resultGraph, grOK, graphKey, gOK, top) ==
    [readErr |-> readErr, apiOK |-> apiOK, hasResult |-> hasResult,
     resultGraph |-> resultGraph, grOK |-> grOK, graphKey |-> graphKey,
     gOK |-> gOK, top |-> top]

\* {"result": {"graph": g}}
EnvelopeDoc(g) == Document(FALSE, TRUE, TRUE, g, TRUE, EmptyGraph, TRUE, EmptyGraph)
\* {"graph": g}
GraphKeyDoc(g) == Document(FALSE, TRUE, FALSE, EmptyGraph, TRUE, g, TRUE, EmptyGraph)
\* {"nodes": [...], "relationships": [...]}
TopDoc(g) == Document(FALSE, TRUE, FALSE, EmptyGraph, TRUE, EmptyGraph, TRUE, g)
\* {}: every decoding succeeds and finds nothing
UnrecognisedDoc == Document(FALSE, TRUE, FALSE, EmptyGraph, TRUE, EmptyGraph, TRUE, EmptyGraph)
\* text that is no JSON: every decoding fails
InvalidDoc == Document(FALSE, FALSE, FALSE, EmptyGraph, FALSE, EmptyGraph, FALSE, EmptyGraph)
\* a file that cannot be read
UnreadableDoc == Document(TRUE, FALSE, FALSE, EmptyGraph, FALSE, EmptyGraph, FALSE, EmptyGraph)

Loaded(g) == [err |-> FALSE, nodes |-> g.Nodes, rels |-> g.Relationships]
LoadError == [err |-> TRUE, nodes |-> << >>, rels |-> << >>]

\* loadGraph with the result envelope accepted only when it has nodes (faulty variant)
loadGraphSkipEmptyResult(doc) ==
    IF doc.readErr THEN LoadError
    ELSE IF doc.apiOK /\ doc.hasResult /\ Len(doc.resultGraph.Nodes) > 0
         THEN Loaded(doc.resultGraph)
    ELSE IF doc.grOK /\ Len(doc.graphKey.Nodes) > 0 THEN Loaded(doc.graphKey)
    ELSE IF doc.gOK /\ Len(doc.top.Nodes) > 0 THEN Loaded(doc.top)
    ELSE LoadError

loadGraph(doc) ==
    IF doc.readErr THEN LoadError
    ELSE IF doc.apiOK /\ doc.hasResult THEN Loaded(doc.resultGraph)
    ELSE IF doc.grOK /\ Len(doc.graphKey.Nodes) > 0 THEN Loaded(doc.graphKey)
    ELSE IF doc.gOK /\ Len(doc.top.Nodes) > 0 THEN Loaded(doc.top)
    ELSE LoadError

\* ------------------------------------------------------------------- state
VARIABLES
    inputFiles,          \* the documents named by --input, in order
    pc,                  \* the loop or statement main is at
    li,                  \* load loop: index of the next document
    allNodes, allRels, nodeMap, nodeLookup,
    ri,                  \* indexing loop: index of the next relationship
    imports, importedBy, callsRel, calledByRel, containsFile, definesFunc,
    declaresClass, definesType, childDir, extendsRel,
    belongsToDomain, belongsToSubdomain, partOfDomain,
    fileOfFunc, fileOfClass, fileOfType,
    domainNodeByName, subdomainNodeByName,
    domainSubdomains, subdomainFuncs, subdomainClasses,
    domainFiles, subdomainFiles,
    si,                  \* pass 1: index of the next node
    slugLookup, usedSlugs, entries,
    ei,                  \* pass 2: index of the next entry
    outputDir,           \* file name (slug) -> the document written there
    count,               \* documents written ("Generated %d entity files")
    writeErrors,         \* failed writes so far
    faultBudget          \* how many writes the file system may fail in this run

loadVars == <<allNodes, allRels, nodeMap, li>>
adjVars == <<imports, importedBy, callsRel, calledByRel, containsFile, definesFunc,
             declaresClass, definesType, childDir, extendsRel,
             fileOfFunc, fileOfClass, fileOfType>>
ownVars == <<belongsToDomain, belongsToSubdomain, partOfDomain>>
nameVars == <<domainNodeByName, subdomainNodeByName>>
groupVars == <<domainSubdomains, subdomainFuncs, subdomainClasses>>
memberVars == <<domainFiles, subdomainFiles>>
slugVars == <<si, slugLookup, usedSlugs, entries>>
renderVars == <<ei, outputDir, count, writeErrors, faultBudget>>

vars == <<inputFiles, pc, loadVars, nodeLookup, ri, adjVars, ownVars, nameVars,
          groupVars, memberVars, slugVars, renderVars>>

\* the state after the declarations of main, for the documents docs, on a
\* file system that fails at most budget writes
InitWith(docs, budget) ==
    /\ inputFiles = docs
    /\ faultBudget = budget
    /\ pc = "load"
    /\ li = 1
    /\ allNodes = << >>
    /\ allRels = << >>
    /\ nodeMap = {}
    /\ nodeLookup = EmptyMap
    /\ ri = 1
    /\ imports = EmptyMap
    /\ importedBy = EmptyMap
    /\ callsRel = EmptyMap
    /\ calledByRel = EmptyMap
    /\ containsFile = EmptyMap
    /\ definesFunc = EmptyMap
    /\ declaresClass = EmptyMap
    /\ definesType = EmptyMap
    /\ childDir = EmptyMap
    /\ extendsRel = EmptyMap
    /\ belongsToDomain = EmptyMap
    /\ belongsToSubdomain = EmptyMap
    /\ partOfDomain = EmptyMap
    /\ fileOfFunc = EmptyMap
    /\ fileOfClass = EmptyMap
    /\ fileOfType = EmptyMap
    /\ domainNodeByName = EmptyMap
    /\ subdomainNodeByName = EmptyMap
    /\ domainSubdomains = EmptyMap
    /\ subdomainFuncs = EmptyMap
    /\ subdomainClasses = EmptyMap
    /\ domainFiles = EmptyMap
    /\ subdomainFiles = EmptyMap
    /\ si = 1
    /\ slugLookup = EmptyMap
    /\ usedSlugs = EmptyMap
    /\ entries = << >>
    /\ ei = 1
    /\ outputDir = EmptyMap
    /\ count = 0
    /\ writeErrors = 0

\* ---------------------------------------------------------- load and merge
RECURSIVE MergeNodes(_, _, _)
\* the merge loop kept every node, duplicates included (faulty variant)
MergeNodesKeepAll(nodes, seen, acc) == [nodes |-> acc \o nodes,
                                        seen |-> seen \cup {nodes[i].ID : i \in 1..Len(nodes)}]

\* for _, n := range nodes { if !nodeMap[n.ID] { ... append } }
MergeNodes(nodes, seen, acc) ==
    IF nodes = << >> THEN [nodes |-> acc, seen |-> seen]
    ELSE LET n == Head(nodes) IN
         IF n.ID \in seen THEN MergeNodes(Tail(nodes), seen, acc)
         ELSE MergeNodes(Tail(nodes), seen \cup {n.ID}, Append(acc, n))

\* the load loop with a failure that ends the run (faulty variant)
LoadStepFatal ==
    /\ pc = "load"
    /\ li <= Len(inputFiles)
    /\ LET r == loadGraph(inputFiles[li])
           m == MergeNodes(r.nodes, nodeMap, allNodes)
       IN IF r.err
          THEN /\ pc' = "done"
               /\ UNCHANGED <<allNodes, allRels, nodeMap>>
          ELSE /\ allNodes' = m.nodes
               /\ nodeMap' = m.seen
               /\ allRels' = allRels \o r.rels
               /\ pc' = pc
    /\ li' = li + 1
    /\ UNCHANGED <<inputFiles, nodeLookup, ri, adjVars, ownVars, nameVars,
                   groupVars, memberVars, slugVars, renderVars>>

RECURSIVE AppendNewRels(_, _)
\* rels appended to acc without the relationships acc already holds
AppendNewRels(acc, rels) ==
    IF rels = << >> THEN acc
    ELSE IF \E i \in 1..Len(acc) : acc[i] = Head(rels) THEN AppendNewRels(acc, Tail(rels))
    ELSE AppendNewRels(Append(acc, Head(rels)), Tail(rels))

\* the load loop with relationships deduplicated like nodes (faulty variant)
LoadStepDedupRels ==
    /\ pc = "load"
    /\ li <= Len(inputFiles)
    /\ LET r == loadGraph(inputFiles[li])
           m == MergeNodes(r.nodes, nodeMap, allNodes)
       IN IF r.err
          THEN UNCHANGED <<allNodes, allRels, nodeMap>>
          ELSE /\ allNodes' = m.nodes
               /\ nodeMap' = m.seen
               /\ allRels' = AppendNewRels(allRels, r.rels)
    /\ li' = li + 1
    /\ UNCHANGED <<inputFiles, pc, nodeLookup, ri, adjVars, ownVars, nameVars,
                   groupVars, memberVars, slugVars, renderVars>>

\* one iteration of the load loop: a document that fails to load is skipped
LoadStep ==
    /\ pc = "load"
    /\ li <= Len(inputFiles)
    /\ LET r == loadGraph(inputFiles[li])
           m == MergeNodes(r.nodes, nodeMap, allNodes)
       IN IF r.err
          THEN UNCHANGED <<allNodes, allRels, nodeMap>>
          ELSE /\ allNodes' = m.nodes
               /\ nodeMap' = m.seen
               /\ allRels' = allRels \o r.rels
    /\ li' = li + 1
    /\ UNCHANGED <<inputFiles, pc, nodeLookup, ri, adjVars, ownVars, nameVars,
                   groupVars, memberVars, slugVars, renderVars>>

\* nodeLookup[allNodes[i].ID] = &allNodes[i]
BuildNodeLookup(nodes) ==
    [id \in {nodes[i].ID : i \in 1..Len(nodes)} |->
        nodes[CHOOSE i \in 1..Len(nodes) :
                 nodes[i].ID = id /\ \A j \in (i+1)..Len(nodes) : nodes[j].ID # id]]

\* the load loop is over: build the node lookup
LookupStep ==
    /\ pc = "load"
    /\ li > Len(inputFiles)
    /\ nodeLookup' = BuildNodeLookup(allNodes)
    /\ pc' = "index"
    /\ UNCHANGED <<inputFiles, loadVars, ri, adjVars, ownVars, nameVars,
                   groupVars, memberVars, slugVars, renderVars>>

\* -------------------------------------------------------- relation indexer
\* the name of the node a belongsTo / partOf relationship ends at
EndName(rel, lookup) == getStr(lookup[rel.EndNode].Properties, "name")

\* case "belongsTo", with a Domain assignment never overwritten (faulty variant)
BelongsToDomainFirstWins(m, rel, lookup) ==
    IF /\ rel.Type = "belongsTo"
       /\ Has(lookup, rel.EndNode)
       /\ hasLabel(lookup[rel.EndNode], "Domain")
       /\ ~Has(m, rel.StartNode)
    THEN Put(m, rel.StartNode, EndName(rel, lookup))
    ELSE m

\* case "belongsTo": the end node is a Domain
BelongsToDomainAfter(m, rel, lookup) ==
    IF /\ rel.Type = "belongsTo"
       /\ Has(lookup, rel.EndNode)
       /\ hasLabel(lookup[rel.EndNode], "Domain")
    THEN Put(m, rel.StartNode, EndName(rel, lookup))
    ELSE m

\* case "belongsTo": the end node is no Domain but a Subdomain
BelongsToSubdomainAfter(m, rel, lookup) ==
    IF /\ rel.Type = "belongsTo"
       /\ Has(lookup, rel.EndNode)
       /\ ~hasLabel(lookup[rel.EndNode], "Domain")
       /\ hasLabel(lookup[rel.EndNode], "Subdomain")
    THEN Put(m, rel.StartNode, EndName(rel, lookup))
    ELSE m

\* case "partOf"
PartOfDomainAfter(m, rel, lookup) ==
    IF rel.Type = "partOf" /\ Has(lookup, rel.EndNode)
    THEN Put(m, rel.StartNode, EndName(rel, lookup))
    ELSE m

\* the forward list kept without repetitions (faulty variant)
ForwardOnce(m, rel, type) ==
    IF rel.Type = type /\ rel.EndNode \notin Range(Get(m, rel.StartNode))
    THEN AppendTo(m, rel.StartNode, rel.EndNode) ELSE m

\* forward list of a relationship type
Forward(m, rel, type) ==
    IF rel.Type = type THEN AppendTo(m, rel.StartNode, rel.EndNode) ELSE m
\* reverse list of a relationship type
Reverse(m, rel, type) ==
    IF rel.Type = type THEN AppendTo(m, rel.EndNode, rel.StartNode) ELSE m
\* reverse single-valued lookup (fileOfFunc, fileOfClass, fileOfType)
FileOf(m, rel, type) ==
    IF rel.Type = type THEN Put(m, rel.EndNode, rel.StartNode) ELSE m

\* one iteration of "for _, rel := range allRels { switch rel.Type ... }"
IndexStep ==
    /\ pc = "index"
    /\ ri <= Len(allRels)
    /\ LET rel == allRels[ri] IN
       /\ imports' = Forward(imports, rel, "IMPORTS")
       /\ importedBy' = Reverse(importedBy, rel, "IMPORTS")
       /\ callsRel' = Forward(callsRel, rel, "calls")
       /\ calledByRel' = Reverse(calledByRel, rel, "calls")
       /\ containsFile' = Forward(containsFile, rel, "CONTAINS_FILE")
       /\ definesFunc' = Forward(definesFunc, rel, "DEFINES_FUNCTION")
       /\ fileOfFunc' = FileOf(fileOfFunc, rel, "DEFINES_FUNCTION")
       /\ declaresClass' = Forward(declaresClass, rel, "DECLARES_CLASS")
       /\ fileOfClass' = FileOf(fileOfClass, rel, "DECLARES_CLASS")
       /\ definesType' = Forward(definesType, rel, "DEFINES")
       /\ fileOfType' = FileOf(fileOfType, rel, "DEFINES")
       /\ childDir' = Forward(childDir, rel, "CHILD_DIRECTORY")
       /\ extendsRel' = Forward(extendsRel, rel, "EXTENDS")
       /\ belongsToDomain' = BelongsToDomainAfter(belongsToDomain, rel, nodeLookup)
       /\ belongsToSubdomain' = BelongsToSubdomainAfter(belongsToSubdomain, rel, nodeLookup)
       /\ partOfDomain' = PartOfDomainAfter(partOfDomain, rel, nodeLookup)
    /\ ri' = ri + 1
    /\ UNCHANGED <<inputFiles, pc, loadVars, nodeLookup, nameVars, groupVars,
                   memberVars, slugVars, renderVars>>

RECURSIVE NodeByName(_, _, _, _)
\* "Build domain/subdomain node-by-name lookups": a node with the Domain label
\* goes to the domain lookup only; a later node of the same name replaces an
\* earlier one
NodeByName(nodes, label, notLabel, acc) ==
    IF nodes = << >> THEN acc
    ELSE LET n == Head(nodes)
             name == getStr(n.Properties, "name")
         IN IF /\ hasLabel(n, label)
               /\ (notLabel = "" \/ ~hasLabel(n, notLabel))
               /\ name # << >>
            THEN NodeByName(Tail(nodes), label, notLabel, Put(acc, name, n.ID))
            ELSE NodeByName(Tail(nodes), label, notLabel, acc)

\* the indexing loop is over: build the name lookups
NamesStep ==
    /\ pc = "index"
    /\ ri > Len(allRels)
    /\ domainNodeByName' = NodeByName(allNodes, "Domain", "", EmptyMap)
    /\ subdomainNodeByName' = NodeByName(allNodes, "Subdomain", "Domain", EmptyMap)
    /\ pc' = "groups"
    /\ UNCHANGED <<inputFiles, loadVars, nodeLookup, ri, adjVars, ownVars,
                   groupVars, memberVars, slugVars, renderVars>>

RECURSIVE Perms(_)
\* the orders in which "for k, v := range m" may visit the key set S
Perms(S) ==
    IF S = {} THEN {<< >>}
    ELSE UNION {{<<x>> \o p : p \in Perms(S \ {x})} : x \in S}

RECURSIVE GroupByValue(_, _, _)
\* for k, v := range m { acc[v] = append(acc[v], k) }, keys visited in order
GroupByValue(order, m, acc) ==
    IF order = << >> THEN acc
    ELSE GroupByValue(Tail(order), m, AppendTo(acc, m[Head(order)], Head(order)))

\* every key grouped, whatever its node (faulty variant)
GroupUnlabelled(order, m, lookup, label, notLabel, acc) == GroupByValue(order, m, acc)

RECURSIVE GroupLabelled(_, _, _, _, _, _)
\* as GroupByValue, for the keys whose node exists and has label but not notLabel
GroupLabelled(order, m, lookup, label, notLabel, acc) ==
    IF order = << >> THEN acc
    ELSE LET k == Head(order)
             keep == /\ Has(lookup, k)
                     /\ hasLabel(lookup[k], label)
                     /\ (notLabel = "" \/ ~hasLabel(lookup[k], notLabel))
         IN GroupLabelled(Tail(order), m, lookup, label, notLabel,
                          IF keep THEN AppendTo(acc, m[k], k) ELSE acc)

\* "Build domain -> subdomain mapping" and "subdomain -> functions/classes":
\* two loops over maps, each in an order the runtime chooses
GroupsStep ==
    /\ pc = "groups"
    /\ \E o1 \in Perms(DOMAIN partOfDomain), o2 \in Perms(DOMAIN belongsToSubdomain) :
         /\ domainSubdomains' = GroupByValue(o1, partOfDomain, EmptyMap)
         /\ subdomainFuncs' =
               GroupLabelled(o2, belongsToSubdomain, nodeLookup, "Function", "", EmptyMap)
         /\ subdomainClasses' =
               GroupLabelled(o2, belongsToSubdomain, nodeLookup, "Class", "Function", EmptyMap)
    /\ pc' = "inferDomain"
    /\ UNCHANGED <<inputFiles, loadVars, nodeLookup, ri, adjVars, ownVars,
                   nameVars, memberVars, slugVars, renderVars>>

\* ------------------------------------------------------ ownership resolver
RECURSIVE FirstAssigned(_, _)
\* the assignment of the first identifier of ids that has one, as <<value>>;
\* << >> when none has
FirstAssigned(ids, m) ==
    IF ids = << >> THEN << >>
    ELSE IF Has(m, Head(ids)) THEN <<m[Head(ids)]>>
    ELSE FirstAssigned(Tail(ids), m)

RECURSIVE MethodsOfAll(_, _)
\* the functions defined on the classes of classes, class after class
MethodsOfAll(classes, defines) ==
    IF classes = << >> THEN << >>
    ELSE Get(defines, Head(classes)) \o MethodsOfAll(Tail(classes), defines)

\* every class looked at before any method (faulty variant)
FirstViaClassesThenMethods(classes, m, defines) ==
    IF FirstAssigned(classes, m) # << >> THEN FirstAssigned(classes, m)
    ELSE FirstAssigned(MethodsOfAll(classes, defines), m)

RECURSIVE FirstViaClasses(_, _, _)
\* "Check classes and their methods": per class, the class itself, then the
\* functions defined on it
FirstViaClasses(classes, m, defines) ==
    IF classes = << >> THEN << >>
    ELSE LET cls == Head(classes) IN
         IF Has(m, cls) THEN <<m[cls]>>
         ELSE LET viaMethods == FirstAssigned(Get(defines, cls), m) IN
              IF viaMethods # << >> THEN viaMethods
              ELSE FirstViaClasses(Tail(classes), m, defines)

\* what the walk over a file's functions, classes and methods finds
Inferred(id, m, defines, declares) ==
    LET viaFuncs == FirstAssigned(Get(defines, id), m) IN
    IF viaFuncs # << >> THEN viaFuncs
    ELSE FirstViaClasses(Get(declares, id), m, defines)

RECURSIVE InferOverwriting(_, _, _, _)
\* the inference loop without its "already assigned" test (faulty variant)
InferOverwriting(nodes, m, defines, declares) ==
    IF nodes = << >> THEN m
    ELSE LET n == Head(nodes)
             found == Inferred(n.ID, m, defines, declares)
         IN IF hasLabel(n, "File") /\ found # << >>
            THEN InferOverwriting(Tail(nodes), Put(m, n.ID, found[1]), defines, declares)
            ELSE InferOverwriting(Tail(nodes), m, defines, declares)

RECURSIVE InferForFiles(_, _, _, _)
\* for _, node := range allNodes: a File without an assignment takes the first
\* one found on its functions, classes and methods
InferForFiles(nodes, m, defines, declares) ==
    IF nodes = << >> THEN m
    ELSE LET n == Head(nodes)
             found == Inferred(n.ID, m, defines, declares)
         IN IF hasLabel(n, "File") /\ ~Has(m, n.ID) /\ found # << >>
            THEN InferForFiles(Tail(nodes), Put(m, n.ID, found[1]), defines, declares)
            ELSE InferForFiles(Tail(nodes), m, defines, declares)

\* "Resolve domain for files via belongsTo on their functions/classes"
InferDomainStep ==
    /\ pc = "inferDomain"
    /\ belongsToDomain' = InferForFiles(allNodes, belongsToDomain, definesFunc, declaresClass)
    /\ pc' = "inferSubdomain"
    /\ UNCHANGED <<inputFiles, loadVars, nodeLookup, ri, adjVars, belongsToSubdomain,
                   partOfDomain, nameVars, groupVars, memberVars, slugVars, renderVars>>

\* subdomain inference run only when no node has a domain (faulty variant)
InferSubdomainStepUnlessDomain ==
    /\ pc = "inferSubdomain"
    /\ belongsToSubdomain' =
          IF DOMAIN belongsToDomain # {} THEN belongsToSubdomain
          ELSE InferForFiles(allNodes, belongsToSubdomain, definesFunc, declaresClass)
    /\ pc' = "propagate"
    /\ UNCHANGED <<inputFiles, loadVars, nodeLookup, ri, adjVars, belongsToDomain,
                   partOfDomain, nameVars, groupVars, memberVars, slugVars, renderVars>>

\* "Similarly resolve subdomain for files"
InferSubdomainStep ==
    /\ pc = "inferSubdomain"
    /\ belongsToSubdomain' =
          InferForFiles(allNodes, belongsToSubdomain, definesFunc, declaresClass)
    /\ pc' = "propagate"
    /\ UNCHANGED <<inputFiles, loadVars, nodeLookup, ri, adjVars, belongsToDomain,
                   partOfDomain, nameVars, groupVars, memberVars, slugVars, renderVars>>

\* the partOf target looked up under the subdomain's name instead of its node
\* identifier (faulty variant)
PropagatedDomainByName(subName, subByName, partOf) ==
    IF Has(partOf, subName) THEN partOf[subName] ELSE << >>

\* the domain the propagation loop gives to a node of subdomain subName;
\* << >> when it gives none
PropagatedDomain(subName, subByName, partOf) ==
    IF Has(subByName, subName) /\ Has(partOf, subByName[subName])
    THEN partOf[subByName[subName]]
    ELSE << >>

\* propagation that also replaces an existing domain (faulty variant)
PropagateOverwriting(dom, sub, subByName, partOf) ==
    [id \in (DOMAIN dom) \cup
            {k \in DOMAIN sub : PropagatedDomain(sub[k], subByName, partOf) # << >>} |->
        IF id \in DOMAIN sub /\ PropagatedDomain(sub[id], subByName, partOf) # << >>
        THEN PropagatedDomain(sub[id], subByName, partOf)
        ELSE dom[id]]

\* "Propagate domain from subdomain's partOf": every iteration reads and writes
\* only its own key of belongsToDomain, so the visiting order does not matter
Propagate(dom, sub, subByName, partOf) ==
    [id \in (DOMAIN dom) \cup
            {k \in DOMAIN sub : PropagatedDomain(sub[k], subByName, partOf) # << >>} |->
        IF id \in DOMAIN dom THEN dom[id]
        ELSE PropagatedDomain(sub[id], subByName, partOf)]

PropagateStep ==
    /\ pc = "propagate"
    /\ belongsToDomain' =
          Propagate(belongsToDomain, belongsToSubdomain, subdomainNodeByName, partOfDomain)
    /\ pc' = "members"
    /\ UNCHANGED <<inputFiles, loadVars, nodeLookup, ri, adjVars, belongsToSubdomain,
                   partOfDomain, nameVars, groupVars, memberVars, slugVars, renderVars>>

\* "Collect all domain members": two loops over maps, each in an order the
\* runtime chooses
MembersStep ==
    /\ pc = "members"
    /\ \E o1 \in Perms(DOMAIN belongsToDomain), o2 \in Perms(DOMAIN belongsToSubdomain) :
         /\ domainFiles' = GroupLabelled(o1, belongsToDomain, nodeLookup, "File", "", EmptyMap)
         /\ subdomainFiles' =
               GroupLabelled(o2, belongsToSubdomain, nodeLookup, "File", "", EmptyMap)
    /\ pc' = "pass1"
    /\ UNCHANGED <<inputFiles, loadVars, nodeLookup, ri, adjVars, ownVars,
                   nameVars, groupVars, slugVars, renderVars>>

\* ---------------------------------------------------------- slug allocator
RECURSIVE Contains(_, _)
\* strings.Contains
Contains(s, sub) ==
    IF Len(sub) > Len(s) THEN FALSE
    ELSE IF SubSeq(s, 1, Len(sub)) = sub THEN TRUE
    ELSE Contains(Tail(s), sub)

RepoRootMarker == <<"/","a","p","p","/","r","e","p","o","-","r","o","o","t","/">>

\* the labels pages are generated for, with the slug prefix of each
generateLabels == {"File", "Function", "Class", "Type", "Domain", "Subdomain", "Directory"}

SlugPrefix(label) ==
    CASE label = "File" -> <<"f","i","l","e","-">>
      [] label = "Function" -> <<"f","n","-">>
      [] label = "Class" -> <<"c","l","a","s","s","-">>
      [] label = "Type" -> <<"t","y","p","e","-">>
      [] label = "Domain" -> <<"d","o","m","a","i","n","-">>
      [] label = "Subdomain" -> <<"s","u","b","d","o","m","a","i","n","-">>
      [] label = "Directory" -> <<"d","i","r","-">>

generateSlug(node, label) ==
    LET props == node.Properties
        path == getStr(props, "path")
        name == getStr(props, "name")
        filePath == getStr(props, "filePath")
    IN CASE label = "File" ->
              IF path = << >> THEN << >> ELSE toSlug(SlugPrefix(label) \o path)
         [] label \in {"Function", "Class", "Type"} ->
              IF name = << >> THEN << >>
              ELSE IF filePath # << >>
                   THEN toSlug(SlugPrefix(label) \o Base(filePath) \o <<"-">> \o name)
                   ELSE toSlug(SlugPrefix(label) \o name)
         [] label \in {"Domain", "Subdomain"} ->
              IF name = << >> THEN << >> ELSE toSlug(SlugPrefix(label) \o name)
         [] label = "Directory" ->
              IF path = << >> \/ Contains(path, RepoRootMarker) THEN << >>
              ELSE toSlug(SlugPrefix(label) \o path)
         [] OTHER -> << >>

\* pass 1 taking the first recognised label of a node instead of its first
\* label (faulty variant)
BaseSlugAnyLabel(node) ==
    LET known == {i \in 1..Len(node.Labels) : node.Labels[i] \in generateLabels}
    IN IF known = {} THEN << >>
       ELSE generateSlug(node, node.Labels[CHOOSE i \in known : \A j \in known : i <= j])

\* the slug of a node of pass 1, << >> when it gets none
BaseSlug(node) ==
    IF Len(node.Labels) = 0 THEN << >>
    ELSE IF node.Labels[1] \notin generateLabels THEN << >>
    ELSE generateSlug(node, node.Labels[1])

\* collision handling that numbers the second claim of a string -1 (variant)
AllocateFromOne(slug, used) ==
    IF Has(used, slug)
    THEN [slug |-> slug \o <<"-">> \o Itoa(used[slug]),
          used |-> Put(used, slug, used[slug] + 1)]
    ELSE [slug |-> slug, used |-> Put(used, slug, 1)]

\* "Handle slug collisions"
Allocate(slug, used) ==
    IF Has(used, slug)
    THEN [slug |-> slug \o <<"-">> \o Itoa(used[slug] + 1),
          used |-> Put(used, slug, used[slug] + 1)]
    ELSE [slug |-> slug, used |-> Put(used, slug, 1)]

\* one iteration of the loop of pass 1
SlugStep ==
    /\ pc = "pass1"
    /\ si <= Len(allNodes)
    /\ LET node == allNodes[si]
           base == BaseSlug(node)
           a == Allocate(base, usedSlugs)
       IN IF base = << >>
          THEN UNCHANGED <<slugLookup, usedSlugs, entries>>
          ELSE /\ usedSlugs' = a.used
               /\ slugLookup' = Put(slugLookup, node.ID, a.slug)
               /\ entries' = Append(entries,
                     [node |-> node, label |-> node.Labels[1], slug |-> a.slug])
    /\ si' = si + 1
    /\ UNCHANGED <<inputFiles, pc, loadVars, nodeLookup, ri, adjVars, ownVars,
                   nameVars, groupVars, memberVars, renderVars>>

\* pass 2 started while pass 1 still has nodes to visit (faulty variant)
Pass1CompleteEarly(i, nodes) == i > 1 \/ i > Len(nodes)

\* the loop of pass 1 has visited every node
Pass1Complete(i, nodes) == i > Len(nodes)

\* "Pass 1 complete": pass 2 starts
StartPass2 ==
    /\ pc = "pass1"
    /\ Pass1Complete(si, allNodes)
    /\ pc' = "pass2"
    /\ UNCHANGED <<inputFiles, loadVars, nodeLookup, ri, adjVars, ownVars,
                   nameVars, groupVars, memberVars, slugVars, renderVars>>

\* ---------------------------------------------------------------- renderer
\* the renderContext main builds for an entry of pass 2
Context(e) ==
    [node |-> e.node, label |-> e.label, slug |-> e.slug,
     nodeLookup |-> nodeLookup, slugLookup |-> slugLookup,
     imports |-> imports, importedBy |-> importedBy,
     calls |-> callsRel, calledBy |-> calledByRel,
     containsFile |-> containsFile, definesFunc |-> definesFunc,
     declaresClass |-> declaresClass, definesType |-> definesType,
     childDir |-> childDir, extendsRel |-> extendsRel,
     belongsToDomain |-> belongsToDomain, belongsToSubdomain |-> belongsToSubdomain,
     partOfDomain |-> partOfDomain,
     domainFiles |-> domainFiles, subdomainFiles |-> subdomainFiles,
     fileOfFunc |-> fileOfFunc, fileOfClass |-> fileOfClass, fileOfType |-> fileOfType,
     domainNodeByName |-> domainNodeByName, subdomainNodeByName |-> subdomainNodeByName,
     domainSubdomains |-> domainSubdomains,
     subdomainFuncs |-> subdomainFuncs, subdomainClasses |-> subdomainClasses]

resolveName(c, nodeID) ==
    IF ~Has(c.nodeLookup, nodeID) THEN nodeID
    ELSE LET name == getStr(c.nodeLookup[nodeID].Properties, "name")
         IN IF name = << >> THEN nodeID ELSE name

resolveNames(c, nodeIDs) == [i \in 1..Len(nodeIDs) |-> resolveName(c, nodeIDs[i])]

resolveNameWithPath(c, nodeID) ==
    IF ~Has(c.nodeLookup, nodeID) THEN nodeID
    ELSE LET props == c.nodeLookup[nodeID].Properties
             path == IF getStr(props, "path") # << >> THEN getStr(props, "path")
                     ELSE getStr(props, "filePath")
             name == getStr(props, "name")
         IN IF path # << >> THEN path
            ELSE IF name # << >> THEN name
            ELSE nodeID

RECURSIVE FlatMap(_, _)
\* the concatenation of Op applied to every element of s
FlatMap(Op(_), s) == IF s = << >> THEN << >> ELSE Op(Head(s)) \o FlatMap(Op, Tail(s))

HtmlEscapeCh(ch) ==
    CASE ch = "<" -> <<"&","l","t",";">>
      [] ch = ">" -> <<"&","g","t",";">>
      [] ch = "&" -> <<"&","a","m","p",";">>
      [] ch = "'" -> <<"&","#","3","9",";">>
      [] ch = "\"" -> <<"&","#","3","4",";">>
      [] OTHER -> <<ch>>

\* html.EscapeString
HtmlEscape(s) == FlatMap(HtmlEscapeCh, s)

\* a reference of a body: a hyperlink to /<slug>.html, or plain text
Link(slug, text) == [linked |-> TRUE, slug |-> slug, text |-> text]
Plain(text) == [linked |-> FALSE, slug |-> << >>, text |-> text]

\* internalLink without the test of the slug table (faulty variant)
internalLinkUnchecked(c, nodeID, label) ==
    Link(Get(c.slugLookup, nodeID), HtmlEscape(label))

internalLink(c, nodeID, label) ==
    IF ~Has(c.slugLookup, nodeID) THEN Plain(HtmlEscape(label))
    ELSE Link(c.slugLookup[nodeID], HtmlEscape(label))

domainLink(c, domainName) ==
    IF ~Has(c.domainNodeByName, domainName) THEN Plain(HtmlEscape(domainName))
    ELSE internalLink(c, c.domainNodeByName[domainName], domainName)

subdomainLink(c, subdomainName) ==
    IF ~Has(c.subdomainNodeByName, subdomainName) THEN Plain(HtmlEscape(subdomainName))
    ELSE internalLink(c, c.subdomainNodeByName[subdomainName], subdomainName)

\* byte order of the characters the inputs use
AsciiOrder == <<"\"", "#", "&", "'", "(", ")", "-", ".", "/">> \o DigitChars \o
              <<";", "<", ">">> \o UpperChars \o <<"_">> \o LowerChars
Code(ch) == CHOOSE i \in 1..Len(AsciiOrder) : AsciiOrder[i] = ch

RECURSIVE StrLess(_, _)
\* a < b on Go strings
StrLess(a, b) ==
    IF b = << >> THEN FALSE
    ELSE IF a = << >> THEN TRUE
    ELSE IF Head(a) = Head(b) THEN StrLess(Tail(a), Tail(b))
    ELSE Code(Head(a)) < Code(Head(b))

RECURSIVE InsertSorted(_, _, _)
\* x put into the sorted sequence s after every element not greater than it
InsertSorted(Key(_), x, s) ==
    IF s = << >> THEN <<x>>
    ELSE IF StrLess(Key(x), Key(Head(s))) THEN <<x>> \o s
    ELSE <<Head(s)>> \o InsertSorted(Key, x, Tail(s))

RECURSIVE SortBy(_, _, _)
\* s sorted by Key; elements of equal key keep their order (the insertion
\* sort sort.Slice and sort.Strings run on short slices)
SortBy(Key(_), s, acc) ==
    IF s = << >> THEN acc ELSE SortBy(Key, Tail(s), InsertSorted(Key, Head(s), acc))

Identity(x) == x
\* sort.Strings
SortStrings(names) == SortBy(Identity, names, << >>)

\* writeLinkedList: the identifiers sorted by resolveName, one reference each
writeLinkedList(c, nodeIDs, LinkFn(_)) ==
    LET Key(id) == resolveName(c, id)
        sorted == SortBy(Key, nodeIDs, << >>)
    IN [i \in 1..Len(sorted) |-> LinkFn(sorted[i])]

Section(title, items) == [title |-> title, items |-> items]
\* a section written only when cond holds
SectionIf(cond, title, items) == IF cond THEN <<Section(title, items)>> ELSE << >>

ParenSuffix == <<"(", ")">>
SlashSuffix == <<"/">>

\* "## Domain" and, only under it, "## Subdomains"
OwnershipSections(c) ==
    LET id == c.node.ID IN
    IF ~Has(c.belongsToDomain, id) THEN << >>
    ELSE <<Section("Domain", <<domainLink(c, c.belongsToDomain[id])>>)>> \o
         SectionIf(Has(c.belongsToSubdomain, id), "Subdomains",
                   <<subdomainLink(c, Get(c.belongsToSubdomain, id))>>)

\* "## Defined In"
DefinedInSection(c, fileOf) ==
    SectionIf(Has(fileOf, c.node.ID), "Defined In",
              <<internalLink(c, Get(fileOf, c.node.ID),
                             resolveNameWithPath(c, Get(fileOf, c.node.ID)))>>)

\* the defaults of the flags --repo and --repo-url stand for the configuration
repoName == <<"r","e","p","o">>
repoURL == <<"u","r","l">>

\* "## Source": one line built from the configuration and the path
SourceSection(c, path) ==
    SectionIf(path # << >> /\ repoURL # << >>, "Source", <<Plain(repoURL \o <<"/">> \o path)>>)

writeFileBody(c) ==
    LET id == c.node.ID
        NameLink(x) == internalLink(c, x, resolveName(c, x))
        CallLink(x) == internalLink(c, x, resolveName(c, x) \o ParenSuffix)
        PathLink(x) == internalLink(c, x, resolveNameWithPath(c, x))
        funcs == Get(c.definesFunc, id)
        classes == Get(c.declaresClass, id)
        types == Get(c.definesType, id)
        deps == Get(c.imports, id)
        ib == Get(c.importedBy, id)
    IN OwnershipSections(c)
       \o SectionIf(Len(funcs) > 0, "Functions", writeLinkedList(c, funcs, CallLink))
       \o SectionIf(Len(classes) > 0, "Classes", writeLinkedList(c, classes, NameLink))
       \o SectionIf(Len(types) > 0, "Types", writeLinkedList(c, types, NameLink))
       \o SectionIf(Len(deps) > 0, "Dependencies", writeLinkedList(c, deps, NameLink))
       \o SectionIf(Len(ib) > 0, "Imported By", writeLinkedList(c, ib, PathLink))
       \o SourceSection(c, getStr(c.node.Properties, "path"))

writeFunctionBody(c) ==
    LET id == c.node.ID
        CallLink(x) == internalLink(c, x, resolveName(c, x) \o ParenSuffix)
        called == Get(c.calls, id)
        callers == Get(c.calledBy, id)
    IN DefinedInSection(c, c.fileOfFunc)
       \o OwnershipSections(c)
       \o SectionIf(Len(called) > 0, "Calls", writeLinkedList(c, called, CallLink))
       \o SectionIf(Len(callers) > 0, "Called By", writeLinkedList(c, callers, CallLink))
       \o SourceSection(c, getStr(c.node.Properties, "filePath"))

\* the Extends section lists the parents in index order, unsorted
writeClassBody(c) ==
    LET extends == Get(c.extendsRel, c.node.ID)
    IN DefinedInSection(c, c.fileOfClass)
       \o OwnershipSections(c)
       \o SectionIf(Len(extends) > 0, "Extends",
             [i \in 1..Len(extends) |->
                 internalLink(c, extends[i], resolveName(c, extends[i]))])
       \o SourceSection(c, getStr(c.node.Properties, "filePath"))

writeTypeBody(c) ==
    DefinedInSection(c, c.fileOfType)
    \o OwnershipSections(c)
    \o SourceSection(c, getStr(c.node.Properties, "filePath"))

writeDomainBody(c) ==
    LET name == getStr(c.node.Properties, "name")
        NameLink(x) == internalLink(c, x, resolveName(c, x))
        PathLink(x) == internalLink(c, x, resolveNameWithPath(c, x))
        subs == Get(c.domainSubdomains, name)
        files == Get(c.domainFiles, name)
    IN SectionIf(Len(subs) > 0, "Subdomains", writeLinkedList(c, subs, NameLink))
       \o SectionIf(Len(files) > 0, "Source Files", writeLinkedList(c, files, PathLink))

writeSubdomainBody(c) ==
    LET name == getStr(c.node.Properties, "name")
        NameLink(x) == internalLink(c, x, resolveName(c, x))
        CallLink(x) == internalLink(c, x, resolveName(c, x) \o ParenSuffix)
        PathLink(x) == internalLink(c, x, resolveNameWithPath(c, x))
        parentDomain == Get(c.partOfDomain, c.node.ID)
        funcs == Get(c.subdomainFuncs, name)
        classes == Get(c.subdomainClasses, name)
        files == Get(c.subdomainFiles, name)
    IN SectionIf(parentDomain # << >>, "Domain", <<domainLink(c, parentDomain)>>)
       \o SectionIf(Len(funcs) > 0, "Functions", writeLinkedList(c, funcs, CallLink))
       \o SectionIf(Len(classes) > 0, "Classes", writeLinkedList(c, classes, NameLink))
       \o SectionIf(Len(files) > 0, "Source Files", writeLinkedList(c, files, PathLink))

writeDirectoryBody(c) ==
    LET NameLink(x) == internalLink(c, x, resolveName(c, x))
        DirLink(x) == internalLink(c, x, resolveNameWithPath(c, x) \o SlashSuffix)
        subdirs == Get(c.childDir, c.node.ID)
        files == Get(c.containsFile, c.node.ID)
    IN SectionIf(Len(subdirs) > 0, "Subdirectories", writeLinkedList(c, subdirs, DirLink))
       \o SectionIf(Len(files) > 0, "Files", writeLinkedList(c, files, NameLink))

\* the body switch of generateMarkdown
writeBody(c) ==
    CASE c.label = "File" -> writeFileBody(c)
      [] c.label = "Function" -> writeFunctionBody(c)
      [] c.label = "Class" -> writeClassBody(c)
      [] c.label = "Type" -> writeTypeBody(c)
      [] c.label = "Domain" -> writeDomainBody(c)
      [] c.label = "Subdomain" -> writeSubdomainBody(c)
      [] c.label = "Directory" -> writeDirectoryBody(c)
      [] OTHER -> << >>

\* ------------------------------------------------------ neighborhood sampler
RelSet(ids, relType, reverse) == [ids |-> ids, relType |-> relType, reverse |-> reverse]
\* a relation set appended only when cond holds
RelSetIf(cond, ids, relType, reverse) ==
    IF cond THEN <<RelSet(ids, relType, reverse)>> ELSE << >>

\* the relation sets with the importers walked before the imports (faulty variant)
relSetsImportersFirst(c) ==
    LET id == c.node.ID
        domName == Get(c.belongsToDomain, id)
        subName == Get(c.belongsToSubdomain, id)
        parentDom == Get(c.partOfDomain, id)
    IN << RelSet(Get(c.importedBy, id), "imports", TRUE),
          RelSet(Get(c.imports, id), "imports", FALSE),
          RelSet(Get(c.calls, id), "calls", FALSE),
          RelSet(Get(c.calledBy, id), "calls", TRUE),
          RelSet(Get(c.definesFunc, id), "defines", FALSE),
          RelSet(Get(c.declaresClass, id), "defines", FALSE),
          RelSet(Get(c.definesType, id), "defines", FALSE),
          RelSet(Get(c.extendsRel, id), "extends", FALSE),
          RelSet(Get(c.containsFile, id), "contains", FALSE),
          RelSet(Get(c.childDir, id), "contains", FALSE) >>
       \o RelSetIf(Has(c.fileOfFunc, id), <<Get(c.fileOfFunc, id)>>, "defines", TRUE)
       \o RelSetIf(Has(c.fileOfClass, id), <<Get(c.fileOfClass, id)>>, "defines", TRUE)
       \o RelSetIf(Has(c.fileOfType, id), <<Get(c.fileOfType, id)>>, "defines", TRUE)
       \o RelSetIf(Has(c.belongsToDomain, id) /\ Has(c.domainNodeByName, domName),
                   <<Get(c.domainNodeByName, domName)>>, "belongsTo", FALSE)
       \o RelSetIf(Has(c.belongsToSubdomain, id) /\ Has(c.subdomainNodeByName, subName),
                   <<Get(c.subdomainNodeByName, subName)>>, "belongsTo", FALSE)
       \o RelSetIf(c.label = "Domain",
                   Get(c.domainSubdomains, getStr(c.node.Properties, "name")),
                   "contains", FALSE)
       \o RelSetIf(c.label = "Subdomain" /\ parentDom # << >>
                      /\ Has(c.domainNodeByName, parentDom),
                   <<Get(c.domainNodeByName, parentDom)>>, "partOf", FALSE)

\* relSets of writeGraphData, in the order they are walked
relSets(c) ==
    LET id == c.node.ID
        domName == Get(c.belongsToDomain, id)
        subName == Get(c.belongsToSubdomain, id)
        parentDom == Get(c.partOfDomain, id)
    IN << RelSet(Get(c.imports, id), "imports", FALSE),
          RelSet(Get(c.importedBy, id), "imports", TRUE),
          RelSet(Get(c.calls, id), "calls", FALSE),
          RelSet(Get(c.calledBy, id), "calls", TRUE),
          RelSet(Get(c.definesFunc, id), "defines", FALSE),
          RelSet(Get(c.declaresClass, id), "defines", FALSE),
          RelSet(Get(c.definesType, id), "defines", FALSE),
          RelSet(Get(c.extendsRel, id), "extends", FALSE),
          RelSet(Get(c.containsFile, id), "contains", FALSE),
          RelSet(Get(c.childDir, id), "contains", FALSE) >>
       \o RelSetIf(Has(c.fileOfFunc, id), <<Get(c.fileOfFunc, id)>>, "defines", TRUE)
       \o RelSetIf(Has(c.fileOfClass, id), <<Get(c.fileOfClass, id)>>, "defines", TRUE)
       \o RelSetIf(Has(c.fileOfType, id), <<Get(c.fileOfType, id)>>, "defines", TRUE)
       \o RelSetIf(Has(c.belongsToDomain, id) /\ Has(c.domainNodeByName, domName),
                   <<Get(c.domainNodeByName, domName)>>, "belongsTo", FALSE)
       \o RelSetIf(Has(c.belongsToSubdomain, id) /\ Has(c.subdomainNodeByName, subName),
                   <<Get(c.subdomainNodeByName, subName)>>, "belongsTo", FALSE)
       \o RelSetIf(c.label = "Domain",
                   Get(c.domainSubdomains, getStr(c.node.Properties, "name")),
                   "contains", FALSE)
       \o RelSetIf(c.label = "Subdomain" /\ parentDom # << >>
                      /\ Has(c.domainNodeByName, parentDom),
                   <<Get(c.domainNodeByName, parentDom)>>, "partOf", FALSE)

\* the identifiers of a relation set, each with the set's type and direction
SetItems(rs) == [i \in 1..Len(rs.ids) |->
                    [id |-> rs.ids[i], relType |-> rs.relType, reverse |-> rs.reverse]]

\* the cap test with > for >= (faulty variant)
AtCapLate(n) == n > GraphDataCap

\* len(seen) >= 31, the test of addNode and of the walk
AtCap(n) == n >= GraphDataCap

graphNode(c, nodeID) ==
    LET n == c.nodeLookup[nodeID]
        name == getStr(n.Properties, "name")
    IN [ID |-> nodeID,
        Label |-> IF name = << >> THEN nodeID ELSE name,
        Type |-> IF Len(n.Labels) > 0 THEN n.Labels[1] ELSE "",
        Slug |-> Get(c.slugLookup, nodeID)]

graphEdge(from, to, relType) == [Source |-> from, Target |-> to, Type |-> relType]

\* addNode: whether nodeID is appended to nodes
CanAddNode(c, nodes, nodeID) ==
    /\ \A i \in 1..Len(nodes) : nodes[i].ID # nodeID
    /\ ~AtCap(Len(nodes))
    /\ Has(c.nodeLookup, nodeID)

addNode(c, nodes, nodeID) ==
    IF CanAddNode(c, nodes, nodeID) THEN Append(nodes, graphNode(c, nodeID)) ELSE nodes

RECURSIVE WalkRelSetsEdgeAlways(_, _, _, _)
\* the walk adding the edge of every identifier below the cap, collected as a
\* node or not (faulty variant)
WalkRelSetsEdgeAlways(c, items, nodes, edges) ==
    IF items = << >> \/ AtCap(Len(nodes)) THEN [Nodes |-> nodes, Edges |-> edges]
    ELSE LET it == Head(items)
             edge == IF it.reverse THEN graphEdge(it.id, c.node.ID, it.relType)
                     ELSE graphEdge(c.node.ID, it.id, it.relType)
         IN WalkRelSetsEdgeAlways(c, Tail(items), addNode(c, nodes, it.id),
                                  Append(edges, edge))

RECURSIVE WalkRelSets(_, _, _, _)
\* the walk over relSets: once the cap is reached every loop breaks at its
\* first test, so nothing more is added
WalkRelSets(c, items, nodes, edges) ==
    IF items = << >> \/ AtCap(Len(nodes)) THEN [Nodes |-> nodes, Edges |-> edges]
    ELSE LET it == Head(items)
             nodes2 == addNode(c, nodes, it.id)
             seen == \E i \in 1..Len(nodes2) : nodes2[i].ID = it.id
             edge == IF it.reverse THEN graphEdge(it.id, c.node.ID, it.relType)
                     ELSE graphEdge(c.node.ID, it.id, it.relType)
         IN WalkRelSets(c, Tail(items), nodes2,
                        IF seen THEN Append(edges, edge) ELSE edges)

\* what the walk of writeGraphData collects
graphData(c) ==
    WalkRelSets(c, FlatMap(SetItems, relSets(c)), addNode(c, << >>, c.node.ID), << >>)

\* the graph_data key: absent when fewer than 2 nodes were collected
writeGraphData(c) ==
    LET gd == graphData(c)
    IN IF Len(gd.Nodes) < 2 THEN [present |-> FALSE, Nodes |-> << >>, Edges |-> << >>]
       ELSE [present |-> TRUE, Nodes |-> gd.Nodes, Edges |-> gd.Edges]

\* --------------------------------------------------------- diagram generator
MermaidEscapeCh(ch) ==
    CASE ch = "\"" -> <<"#","q","u","o","t",";">>
      [] ch = "<" -> <<"#","l","t",";">>
      [] ch = ">" -> <<"#","g","t",";">>
      [] OTHER -> <<ch>>

mermaidEscape(s) == FlatMap(MermaidEscapeCh, s)

IsMermaidIDChar(ch) ==
    ch \in Range(LowerChars) \cup Range(UpperChars) \cup Range(DigitChars) \cup {"_"}

mermaidID(nodeID) ==
    IF nodeID = << >> THEN <<"n","o","d","e">>
    ELSE [i \in 1..Len(nodeID) |-> IF IsMermaidIDChar(nodeID[i]) THEN nodeID[i] ELSE "_"]

\* a walk of the diagram: the identifiers, the suffix of their labels, the text
\* of the edge, the edge's direction
Walk(ids, suffix, text, reverse) ==
    [ids |-> ids, suffix |-> suffix, text |-> text, reverse |-> reverse]
WalkIf(cond, ids, suffix, text, reverse) ==
    IF cond THEN <<Walk(ids, suffix, text, reverse)>> ELSE << >>

\* the walks of each case of writeMermaidDiagram, in order
mermaidWalks(c) ==
    LET id == c.node.ID
        name == getStr(c.node.Properties, "name")
    IN CASE c.label = "File" ->
              << Walk(Get(c.imports, id), << >>, "", FALSE),
                 Walk(Get(c.importedBy, id), << >>, "", TRUE) >>
         [] c.label = "Function" ->
              WalkIf(Has(c.fileOfFunc, id), <<Get(c.fileOfFunc, id)>>, << >>,
                     "defined in", FALSE)
              \o << Walk(Get(c.calledBy, id), ParenSuffix, "calls", TRUE),
                    Walk(Get(c.calls, id), ParenSuffix, "calls", FALSE) >>
         [] c.label = "Type" ->
              WalkIf(Has(c.fileOfType, id), <<Get(c.fileOfType, id)>>, << >>,
                     "defined in", FALSE)
         [] c.label = "Class" ->
              << Walk(Get(c.extendsRel, id), << >>, "extends", FALSE) >>
              \o WalkIf(Has(c.fileOfClass, id), <<Get(c.fileOfClass, id)>>, << >>,
                        "defined in", FALSE)
              \o << Walk(Get(c.definesFunc, id), ParenSuffix, "method", FALSE) >>
         [] c.label = "Domain" ->
              << Walk(Get(c.domainSubdomains, name), << >>, "", FALSE) >>
         [] c.label = "Subdomain" ->
              << Walk(Get(c.subdomainFiles, name), << >>, "", FALSE) >>
         [] c.label = "Directory" ->
              << Walk(Get(c.childDir, id), SlashSuffix, "", FALSE),
                 Walk(Get(c.containsFile, id), << >>, "", FALSE) >>
         [] OTHER -> << >>

WalkItems(w) == [i \in 1..Len(w.ids) |->
                    [id |-> w.ids[i], suffix |-> w.suffix, text |-> w.text,
                     reverse |-> w.reverse]]

\* the label of the center node's statement
mermaidCenterText(c) ==
    LET name == getStr(c.node.Properties, "name")
        centerLabel == IF mermaidEscape(name) = << >> THEN mermaidEscape(c.node.ID)
                       ELSE mermaidEscape(name)
        dirName == IF name = << >> THEN Base(getStr(c.node.Properties, "path")) ELSE name
    IN CASE c.label = "Function" -> centerLabel \o ParenSuffix
         [] c.label \in {"Domain", "Subdomain"} -> mermaidEscape(name)
         [] c.label = "Directory" -> mermaidEscape(dirName) \o SlashSuffix
         [] OTHER -> centerLabel

\* a statement of the diagram: a node with its label, or an edge with its text
NodeLine(mid, label) ==
    [k |-> "node", a |-> mid, b |-> << >>, label |-> label, text |-> ""]
EdgeLine(from, to, text) ==
    [k |-> "edge", a |-> from, b |-> to, label |-> << >>, text |-> text]

\* the node-count test with > for >= (faulty variant)
DiagramFullLate(n) == n > MermaidMaxNodes

\* nodeCount >= maxNodes
DiagramFull(n) == n >= MermaidMaxNodes

RECURSIVE WalkDiagram(_, _, _, _, _)
\* the loops of writeMermaidDiagram: a node statement and an edge statement per
\* identifier, the count raised for a mermaid id not yet placed; once the count
\* reaches maxNodes every loop breaks at its first test
WalkDiagram(c, items, added, lines, centerID) ==
    IF items = << >> \/ DiagramFull(Cardinality(added))
    THEN [lines |-> lines, added |-> added]
    ELSE LET it == Head(items)
             label == mermaidEscape(resolveName(c, it.id))
             mid == mermaidID(it.id)
             edge == IF it.reverse THEN EdgeLine(mid, centerID, it.text)
                     ELSE EdgeLine(centerID, mid, it.text)
         IN WalkDiagram(c, Tail(items), added \cup {mid},
                        lines \o <<NodeLine(mid, label \o it.suffix), edge>>, centerID)

\* the mermaid_diagram key: absent when fewer than 2 nodes were placed
writeMermaidDiagram(c) ==
    LET centerID == mermaidID(c.node.ID)
        header == [k |-> "graph", a |-> << >>, b |-> << >>, label |-> << >>,
                   text |-> IF c.label = "File" THEN "LR" ELSE "TD"]
        style == [k |-> "style", a |-> centerID, b |-> << >>, label |-> << >>,
                  text |-> ""]
        w == WalkDiagram(c, FlatMap(WalkItems, mermaidWalks(c)), {centerID},
                         <<header, NodeLine(centerID, mermaidCenterText(c))>>, centerID)
    IN IF c.label \notin generateLabels \/ Cardinality(w.added) < 2
       THEN [present |-> FALSE, lines |-> << >>, nodeCount |-> 0]
       ELSE [present |-> TRUE,
             lines |-> IF c.label = "Class" THEN w.lines ELSE Append(w.lines, style),
             nodeCount |-> Cardinality(w.added)]

\* --------------------------------------------------------------- FAQ block
\* a candidate question/answer pair: the question's kind and subject, and for
\* an answer that enumerates a list the stated total, the names listed and the
\* N of "and N more" (0: no suffix)
Faq(q, subject, total, listed, more) ==
    [q |-> q, subject |-> subject, total |-> total, listed |-> listed, more |-> more]
\* a pair whose answer enumerates nothing
FactFaq(q, subject) == Faq(q, subject, 0, << >>, 0)
FaqIf(cond, faq) == IF cond THEN <<faq>> ELSE << >>

\* names sorted, cut to cap, "and N more" for the rest
TruncatedFaq(c, q, subject, ids, cap) ==
    LET names == SortStrings(resolveNames(c, ids))
    IN Faq(q, subject, Len(ids),
           IF Len(names) > cap THEN SubSeq(names, 1, cap) ELSE names,
           IF Len(ids) > cap THEN Len(ids) - cap ELSE 0)

\* names sorted and all listed
FullFaq(c, q, subject, ids) ==
    Faq(q, subject, Len(ids), SortStrings(resolveNames(c, ids)), 0)

\* the candidates of writeFAQSection, in the order they are appended
faqCandidates(c) ==
    LET id == c.node.ID
        props == c.node.Properties
        name == IF getStr(props, "name") = << >> THEN id ELSE getStr(props, "name")
        path == getStr(props, "path")
        fileName == IF getStr(props, "name") = << >> THEN Base(path)
                    ELSE getStr(props, "name")
        dir == Dir(path)
        funcs == Get(c.definesFunc, id)
        deps == Get(c.imports, id)
        ib == Get(c.importedBy, id)
        called == Get(c.calls, id)
        callers == Get(c.calledBy, id)
        extends == Get(c.extendsRel, id)
        subs == Get(c.domainSubdomains, name)
        parentDomain == Get(c.partOfDomain, id)
        subFuncs == Get(c.subdomainFuncs, name)
        subdirs == Get(c.childDir, id)
    IN CASE c.label = "File" ->
              <<FactFaq("What does do", fileName)>>
              \o FaqIf(Len(funcs) > 0,
                       TruncatedFaq(c, "What functions are defined in", fileName,
                                    funcs, FuncListCap))
              \o FaqIf(Len(deps) > 0,
                       TruncatedFaq(c, "What does depend on", fileName, deps, ListCap))
              \o FaqIf(Len(ib) > 0,
                       TruncatedFaq(c, "What files import", fileName, ib, ListCap))
              \o FaqIf(\/ Has(c.belongsToDomain, id)
                       \/ Has(c.belongsToSubdomain, id)
                       \/ (dir # << >> /\ dir # <<".">>),
                       FactFaq("Where is in the architecture", fileName))
         [] c.label = "Function" ->
              <<FactFaq("What does do", name \o ParenSuffix)>>
              \o FaqIf(Has(c.fileOfFunc, id),
                       FactFaq("Where is defined", name \o ParenSuffix))
              \o FaqIf(Len(called) > 0,
                       TruncatedFaq(c, "What does call", name \o ParenSuffix,
                                    called, ListCap))
              \o FaqIf(Len(callers) > 0,
                       TruncatedFaq(c, "What calls", name \o ParenSuffix,
                                    callers, ListCap))
         [] c.label = "Class" ->
              <<FactFaq("What is the class", name)>>
              \o FaqIf(Has(c.fileOfClass, id), FactFaq("Where is defined", name))
              \o FaqIf(Len(extends) > 0,
                       Faq("What does extend", name, Len(extends),
                           resolveNames(c, extends), 0))
         [] c.label = "Type" ->
              <<FactFaq("What is the type", name)>>
              \o FaqIf(Has(c.fileOfType, id), FactFaq("Where is defined", name))
         [] c.label = "Domain" ->
              <<FactFaq("What is the domain", name)>>
              \o FaqIf(Len(subs) > 0,
                       FullFaq(c, "What subdomains are in", name, subs))
              \o <<FactFaq("How many files are in", name)>>
         [] c.label = "Subdomain" ->
              <<FactFaq("What is the subdomain", name)>>
              \o FaqIf(parentDomain # << >>,
                       FactFaq("Which domain does belong to", name))
              \o FaqIf(Len(subFuncs) > 0,
                       TruncatedFaq(c, "What functions are in", name, subFuncs, ListCap))
         [] c.label = "Directory" ->
              <<FactFaq("What's in the directory", fileName)>>
              \o FaqIf(Len(subdirs) > 0,
                       FullFaq(c, "What subdirectories does contain", fileName, subdirs))
         [] OTHER -> << >>

\* the gate with one candidate enough (faulty variant)
FaqGateOne(faqs) == Len(faqs) >= 1

\* "Require minimum 2 FAQs"
FaqGate(faqs) == ~(Len(faqs) < MinFAQs)

\* writeFAQSection: the "## FAQs" section, or nothing
writeFAQSection(c) ==
    LET faqs == faqCandidates(c)
    IN SectionIf(FaqGate(faqs), "FAQs", faqs)

\* ------------------------------------------------------------- frontmatter
\* a tag taken from the node's labels, from its language, or derived
LabelTag(l) == [from |-> "label", name |-> l, text |-> << >>]
LanguageTag(t) == [from |-> "language", name |-> "", text |-> t]
DerivedTag(n) == [from |-> "derived", name |-> n, text |-> << >>]

TagIf(cond, n) == IF cond THEN <<DerivedTag(n)>> ELSE << >>

\* the thresholds tested with > for >= (faulty variant)
writeTagsAbove(c) ==
    LET id == c.node.ID
        lang == getStr(c.node.Properties, "language")
        ibCount == Len(Get(c.importedBy, id))
        impCount == Len(Get(c.imports, id))
        cbCount == Len(Get(c.calledBy, id))
        funcCount == Len(Get(c.definesFunc, id))
        classCount == Len(Get(c.declaresClass, id))
    IN [i \in 1..Len(c.node.Labels) |-> LabelTag(c.node.Labels[i])]
       \o (IF lang # << >> THEN <<LanguageTag(lang)>> ELSE << >>)
       \o TagIf(ibCount > TagThreshold \/ cbCount > TagThreshold, "High-Dependency")
       \o TagIf(impCount > TagThreshold, "Many-Imports")
       \o TagIf(funcCount > ComplexFuncs \/ classCount > TagThreshold, "Complex")
       \o TagIf(ibCount = 0 /\ impCount = 0 /\ cbCount = 0 /\ c.label = "File", "Isolated")

\* writeTags: the "tags:" list, in the order it is appended
writeTags(c) ==
    LET id == c.node.ID
        lang == getStr(c.node.Properties, "language")
        ibCount == Len(Get(c.importedBy, id))
        impCount == Len(Get(c.imports, id))
        cbCount == Len(Get(c.calledBy, id))
        funcCount == Len(Get(c.definesFunc, id))
        classCount == Len(Get(c.declaresClass, id))
    IN [i \in 1..Len(c.node.Labels) |-> LabelTag(c.node.Labels[i])]
       \o (IF lang # << >> THEN <<LanguageTag(lang)>> ELSE << >>)
       \o TagIf(ibCount >= TagThreshold \/ cbCount >= TagThreshold, "High-Dependency")
       \o TagIf(impCount >= TagThreshold, "Many-Imports")
       \o TagIf(funcCount >= ComplexFuncs \/ classCount >= TagThreshold, "Complex")
       \o TagIf(ibCount = 0 /\ impCount = 0 /\ cbCount = 0 /\ c.label = "File", "Isolated")

\* import_count taken from the importers (faulty variant)
writeFileFrontmatterImporters(c) ==
    LET id == c.node.ID IN
    [import_count |-> Len(Get(c.importedBy, id)),
     imported_by_count |-> Len(Get(c.importedBy, id)),
     function_count |-> Len(Get(c.definesFunc, id)),
     class_count |-> Len(Get(c.declaresClass, id)),
     type_count |-> Len(Get(c.definesType, id))]

\* the count keys of writeFileFrontmatter
writeFileFrontmatter(c) ==
    LET id == c.node.ID IN
    [import_count |-> Len(Get(c.imports, id)),
     imported_by_count |-> Len(Get(c.importedBy, id)),
     function_count |-> Len(Get(c.definesFunc, id)),
     class_count |-> Len(Get(c.declaresClass, id)),
     type_count |-> Len(Get(c.definesType, id))]

\* the count keys of writeFunctionFrontmatter
writeFunctionFrontmatter(c) ==
    [call_count |-> Len(Get(c.calls, c.node.ID)),
     called_by_count |-> Len(Get(c.calledBy, c.node.ID))]

\* the count key of writeDomainFrontmatter
writeDomainFrontmatter(c) ==
    LET n == getStr(c.node.Properties, "name")
        name == IF n = << >> THEN c.node.ID ELSE n
    IN [file_count |-> Len(Get(c.domainFiles, name))]

\* the count key of writeSubdomainFrontmatter
writeSubdomainFrontmatter(c) ==
    LET n == getStr(c.node.Properties, "name")
        name == IF n = << >> THEN c.node.ID ELSE n
    IN [file_count |-> Len(Get(c.subdomainFiles, name))]

\* the count keys of writeDirectoryFrontmatter
writeDirectoryFrontmatter(c) ==
    [file_count |-> Len(Get(c.containsFile, c.node.ID)),
     subdir_count |-> Len(Get(c.childDir, c.node.ID))]

\* writeDirectoryFrontmatter returns before any key for a root directory
FrontmatterSkipped(c) ==
    LET name == getStr(c.node.Properties, "name")
        p == getStr(c.node.Properties, "path")
        path == IF p = << >>
                THEN (IF name = << >> THEN Base(p) ELSE name)
                ELSE p
    IN c.label = "Directory" /\ Contains(path, RepoRootMarker)

\* the frontmatter switch of generateMarkdown
writeFrontmatter(c) ==
    CASE c.label = "File" -> writeFileFrontmatter(c)
      [] c.label = "Function" -> writeFunctionFrontmatter(c)
      [] c.label = "Domain" -> writeDomainFrontmatter(c)
      [] c.label = "Subdomain" -> writeSubdomainFrontmatter(c)
      [] c.label = "Directory" /\ ~FrontmatterSkipped(c) -> writeDirectoryFrontmatter(c)
      [] OTHER -> [none |-> 0]

\* ---------------------------------------------------------------- pass 2
\* generateMarkdown: the parts of the document (the metadata block is
\* represented by its count keys, its tags and its graph_data and
\* mermaid_diagram keys)
generateMarkdown(c) ==
    [id |-> c.node.ID, label |-> c.label, slug |-> c.slug,
     counts |-> writeFrontmatter(c),
     tags |-> IF FrontmatterSkipped(c) THEN << >> ELSE writeTags(c),
     graph_data |-> writeGraphData(c),
     mermaid_diagram |-> writeMermaidDiagram(c),
     sections |-> writeBody(c) \o writeFAQSection(c)]

\* the loop of pass 2 left at the first failed write (faulty variant)
RenderStepBreak ==
    /\ pc = "pass2"
    /\ ei <= Len(entries)
    /\ \E ok \in BOOLEAN :
         /\ (~ok) => writeErrors < faultBudget
         /\ LET e == entries[ei]
                md == generateMarkdown(Context(e))
            IN IF ok
               THEN /\ outputDir' = Put(outputDir, e.slug, md)
                    /\ count' = count + 1
                    /\ ei' = ei + 1
                    /\ UNCHANGED writeErrors
               ELSE /\ writeErrors' = writeErrors + 1
                    /\ ei' = Len(entries) + 1
                    /\ UNCHANGED <<outputDir, count>>
    /\ UNCHANGED <<inputFiles, pc, loadVars, nodeLookup, ri, adjVars, ownVars,
                   nameVars, groupVars, memberVars, slugVars, faultBudget>>

\* one iteration of pass 2 that sorts the entity's importers list itself
\* instead of a copy of it (faulty variant)
RenderStepSortingInPlace ==
    /\ pc = "pass2"
    /\ ei <= Len(entries)
    /\ \E ok \in BOOLEAN :
         /\ (~ok) => writeErrors < faultBudget
         /\ LET e == entries[ei]
                md == generateMarkdown(Context(e))
            IN /\ IF ok
                  THEN /\ outputDir' = Put(outputDir, e.slug, md)
                       /\ count' = count + 1
                       /\ UNCHANGED writeErrors
                  ELSE /\ writeErrors' = writeErrors + 1
                       /\ UNCHANGED <<outputDir, count>>
               /\ importedBy' =
                     IF Has(importedBy, e.node.ID)
                     THEN [importedBy EXCEPT ![e.node.ID] =
                             SortBy(LAMBDA id : resolveName(Context(e), id), @, << >>)]
                     ELSE importedBy
    /\ ei' = ei + 1
    /\ UNCHANGED <<inputFiles, pc, loadVars, nodeLookup, ri, imports, callsRel,
                   calledByRel, containsFile, definesFunc, declaresClass, definesType,
                   childDir, extendsRel, fileOfFunc, fileOfClass, fileOfType, ownVars,
                   nameVars, groupVars, memberVars, slugVars, faultBudget>>

\* one iteration of the loop of pass 2: render the entry and write it to
\* <slug>.md; a failed write is logged and the loop goes on
RenderStep ==
    /\ pc = "pass2"
    /\ ei <= Len(entries)
    /\ \E ok \in BOOLEAN :
         /\ (~ok) => writeErrors < faultBudget
         /\ LET e == entries[ei]
                md == generateMarkdown(Context(e))
            IN IF ok
               THEN /\ outputDir' = Put(outputDir, e.slug, md)
                    /\ count' = count + 1
                    /\ UNCHANGED writeErrors
               ELSE /\ writeErrors' = writeErrors + 1
                    /\ UNCHANGED <<outputDir, count>>
    /\ ei' = ei + 1
    /\ UNCHANGED <<inputFiles, pc, loadVars, nodeLookup, ri, adjVars, ownVars,
                   nameVars, groupVars, memberVars, slugVars, faultBudget>>

\* "Generated %d entity files": main returns
FinishStep ==
    /\ pc = "pass2"
    /\ ei > Len(entries)
    /\ pc' = "done"
    /\ UNCHANGED <<inputFiles, loadVars, nodeLookup, ri, adjVars, ownVars,
                   nameVars, groupVars, memberVars, slugVars, renderVars>>

Next ==
    \/ LoadStep
    \/ LookupStep
    \/ IndexStep
    \/ NamesStep
    \/ GroupsStep
    \/ InferDomainStep
    \/ InferSubdomainStep
    \/ PropagateStep
    \/ MembersStep
    \/ SlugStep
    \/ StartPass2
    \/ RenderStep
    \/ FinishStep

\* ------------------------------------------------------------------ inputs
\* the identifier n<i>
NId(i) == <<"n">> \o Itoa(i)

FileNode(id, path) == Node(id, <<"File">>, [path |-> Str(path)])
DirNode(id, path) == Node(id, <<"Directory">>, [path |-> Str(path)])
NamedNode(id, label, name) == Node(id, <<label>>, [name |-> Str(name)])

\* --- slug family: node lists of MaxSlugNodes nodes n1, n2, ... whose slug
\* recipes give equal strings, strings equal after lower-casing, a string that
\* equals another's suffixed slug, and no slug at all
SlugShapes ==
    { [label |-> "File", props |-> [path |-> Str(<<"x">>)]],
      [label |-> "File", props |-> [path |-> Str(<<"X">>)]],
      [label |-> "File", props |-> [path |-> Str(<<"x","-","2">>)]],
      [label |-> "File", props |-> [path |-> Str(<< >>)]],
      [label |-> "Function", props |-> [name |-> Str(<<"x">>)]],
      [label |-> "Other", props |-> [name |-> Str(<<"x">>)]] }

SlugGraph(shapes) ==
    Graph([i \in 1..Len(shapes) |-> Node(NId(i), <<shapes[i].label>>, shapes[i].props)],
          <<Relationship("IMPORTS", NId(1), NId(2))>>)

SlugInputs == { <<EnvelopeDoc(SlugGraph(sh))>> : sh \in [1..MaxSlugNodes -> SlugShapes] }

InitSlug == \E docs \in SlugInputs : InitWith(docs, 0)

SpecSlug == InitSlug /\ [][Next]_vars

\* --- merge family: MaxGraphs documents, each unreadable, empty, or a graph of
\* one or two nodes drawn from two copies of identifier a that differ in labels
\* and properties, and a node b
IdA == <<"a">>
IdB == <<"b">>
MergeNodePool ==
    { FileNode(IdA, <<"p">>), NamedNode(IdA, "Function", <<"f">>), FileNode(IdB, <<"q">>) }
MergeNodeLists ==
    { <<n>> : n \in MergeNodePool } \cup { <<n, m>> : n \in MergeNodePool, m \in MergeNodePool }
MergeDocs ==
    { EnvelopeDoc(Graph(ns, <<Relationship("IMPORTS", IdA, IdB)>>)) : ns \in MergeNodeLists }
    \cup { EnvelopeDoc(EmptyGraph), UnreadableDoc }

MergeInputs == [1..MaxGraphs -> MergeDocs]

InitMerge == \E docs \in MergeInputs : InitWith(docs, 0)

SpecMerge == InitMerge /\ [][Next]_vars


\* --- load family: up to MaxLoadDocs documents of every shape the loader
\* tells apart, documents with several shapes at once, and documents that fail
LoadGraphA == Graph(<<FileNode(IdA, <<"p">>)>>, <<Relationship("IMPORTS", IdA, IdB)>>)
LoadGraphB == Graph(<<FileNode(IdB, <<"q">>)>>, <<Relationship("IMPORTS", IdB, IdA)>>)
LoadDocs ==
    { EnvelopeDoc(LoadGraphA), GraphKeyDoc(LoadGraphB), TopDoc(LoadGraphA),
      UnreadableDoc, InvalidDoc, UnrecognisedDoc, EnvelopeDoc(EmptyGraph),
      Document(FALSE, TRUE, TRUE, EmptyGraph, TRUE, LoadGraphB, TRUE, EmptyGraph),
      Document(FALSE, TRUE, TRUE, EmptyGraph, TRUE, EmptyGraph, TRUE, LoadGraphA),
      Document(FALSE, TRUE, FALSE, EmptyGraph, TRUE, LoadGraphB, TRUE, LoadGraphA),
      Document(FALSE, TRUE, TRUE, LoadGraphA, TRUE, LoadGraphB, TRUE, LoadGraphB) }

LoadInputs == UNION { [1..n -> LoadDocs] : n \in 1..MaxLoadDocs }

InitLoad == \E docs \in LoadInputs : InitWith(docs, 0)

SpecLoad == InitLoad /\ [][Next]_vars

\* --- index family: files a and b and function f, and up to MaxIndexRels
\* relationships drawn with repetition from IndexPool, which has both
\* directions of IMPORTS and calls, an endpoint that no node has and a type
\* that the index switch does not know
IndexPool ==
    { Relationship("IMPORTS", IdA, IdB), Relationship("IMPORTS", IdB, IdA),
      Relationship("IMPORTS", IdA, <<"z">>), Relationship("calls", IdA, IdB),
      Relationship("calls", IdB, IdA), Relationship("DEFINES_FUNCTION", IdA, <<"f">>),
      Relationship("USES", IdA, IdB) }

IndexNodes == <<FileNode(IdA, <<"p">>), FileNode(IdB, <<"q">>), NamedNode(<<"f">>, "Function", <<"f">>)>>

IndexInputs ==
    { <<EnvelopeDoc(Graph(IndexNodes, rels))>> :
         rels \in UNION { [1..n -> IndexPool] : n \in 1..MaxIndexRels } }

InitIndex == \E docs \in IndexInputs : InitWith(docs, 0)

SpecIndex == InitIndex /\ [][Next]_vars

\* --- sampler family: a centre c with k neighbours n1..nk, k around the caps
\* of the renderer (ListCap, FuncListCap, MermaidMaxNodes, GraphDataCap)
IdC == <<"c">>
SamplerSizes ==
    {0, 1, 2, TagThreshold - 1, TagThreshold, ListCap, ListCap + 1,
     FuncListCap, FuncListCap + 1,
     MermaidMaxNodes - 1, MermaidMaxNodes, MermaidMaxNodes + 1}
    \cup ((GraphDataCap - 1)..MaxNeighbors)
SamplerShapes ==
    {"out", "in", "both", "dangling", "calls",
     "unslugged", "inrev", "defines", "declares", "extends"}

\* the identifier of a node that is in no graph
Ghost(i) == <<"z">> \o Itoa(i)

SamplerNodes(k, shape) ==
    CASE shape = "calls" ->
           <<NamedNode(IdC, "Function", <<"c">>)>>
           \o [i \in 1..k |-> NamedNode(NId(i), "Function", <<"f">> \o Itoa(i))]
      [] shape = "extends" ->
           <<NamedNode(IdC, "Class", <<"c">>)>>
           \o [i \in 1..k |-> NamedNode(NId(i), "Class", <<"k">> \o Itoa(k - i))]
      [] shape = "defines" ->
           <<FileNode(IdC, <<"c">>)>>
           \o [i \in 1..k |-> NamedNode(NId(i), "Function", <<"f">> \o Itoa(i))]
      [] shape = "declares" ->
           <<FileNode(IdC, <<"c">>)>>
           \o [i \in 1..k |-> NamedNode(NId(i), "Class", <<"k">> \o Itoa(i))]
      [] shape = "subdirs" ->
           <<DirNode(IdC, <<"c">>)>>
           \o [i \in 1..k |-> DirNode(NId(i), <<"c", "/">> \o Itoa(i))]
      [] shape = "subdomains" ->
           <<NamedNode(IdC, "Domain", <<"c">>)>>
           \o [i \in 1..k |-> NamedNode(NId(i), "Subdomain", <<"s">> \o Itoa(i))]
      [] shape = "subfuncs" ->
           <<NamedNode(IdC, "Subdomain", <<"c">>)>>
           \o [i \in 1..k |-> NamedNode(NId(i), "Function", <<"f">> \o Itoa(k - i))]
      [] shape = "unslugged" ->
           <<FileNode(IdC, <<"c">>)>>
           \o [i \in 1..k |-> IF i % 2 = 0 THEN FileNode(NId(i), << >>)
                               ELSE FileNode(NId(i), <<"p">> \o Itoa(i))]
      [] shape = "inrev" ->
           <<FileNode(IdC, <<"c">>)>>
           \o [i \in 1..k |-> FileNode(NId(i), <<"q">> \o Itoa(k - i))]
      [] OTHER ->
           <<FileNode(IdC, <<"c">>)>>
           \o [i \in 1..k |-> FileNode(NId(i), <<"p">> \o Itoa(i))]

SamplerRels(k, shape) ==
    CASE shape = "out" -> [i \in 1..k |-> Relationship("IMPORTS", IdC, NId(i))]
      [] shape = "in" -> [i \in 1..k |-> Relationship("IMPORTS", NId(i), IdC)]
      [] shape = "both" ->
           [i \in 1..k |-> Relationship("IMPORTS", IdC, NId(i))]
           \o [i \in 1..k |-> Relationship("IMPORTS", NId(i), IdC)]
      [] shape = "dangling" ->
           [i \in 1..(2 * k) |->
               IF i % 2 = 1 THEN Relationship("IMPORTS", IdC, Ghost(i))
               ELSE Relationship("IMPORTS", IdC, NId(i \div 2))]
      [] shape = "calls" ->
           [i \in 1..k |->
               IF i % 2 = 1 THEN Relationship("calls", IdC, NId(i))
               ELSE Relationship("calls", NId(i), IdC)]
      [] shape = "unslugged" -> [i \in 1..k |-> Relationship("IMPORTS", IdC, NId(i))]
      [] shape = "inrev" -> [i \in 1..k |-> Relationship("IMPORTS", NId(i), IdC)]
      [] shape = "defines" ->
           [i \in 1..k |-> Relationship("DEFINES_FUNCTION", IdC, NId(i))]
      [] shape = "declares" ->
           [i \in 1..k |-> Relationship("DECLARES_CLASS", IdC, NId(i))]
      [] shape = "extends" -> [i \in 1..k |-> Relationship("EXTENDS", IdC, NId(i))]
      [] shape = "subdirs" ->
           [i \in 1..k |-> Relationship("CHILD_DIRECTORY", IdC, NId(i))]
      [] shape = "subdomains" -> [i \in 1..k |-> Relationship("partOf", NId(i), IdC)]
      [] shape = "subfuncs" -> [i \in 1..k |-> Relationship("belongsTo", NId(i), IdC)]

SamplerInputs ==
    { [docs |-> <<EnvelopeDoc(Graph(SamplerNodes(k, sh), SamplerRels(k, sh)))>>,
       budget |-> 0] : k \in SamplerSizes, sh \in SamplerShapes }

\* --- zoo family: one or two nodes of every label, a Domain without name and
\* a File without path (so without slug), and up to MaxZooRels of
\* the relationships of ZooPool in pool order (or all of them, and then with
\* writes that may fail)
IdFa == <<"F","a">>
IdFy == <<"F","y">>
IdFf == <<"f">>
IdFg == <<"g">>
IdK == <<"K">>
IdK2 == <<"K","2">>
IdT == <<"T">>
IdD == <<"D">>
IdS == <<"S">>
IdDa == <<"D","a">>
IdDb == <<"D","b">>
IdD0 == <<"D","0">>
IdF0 == <<"F","0">>

ZooNodes ==
    << Node(IdFa, <<"File">>, [path |-> Str(<<"a","/","m">>), language |-> Str(<<"g","o">>)]),
       FileNode(IdFy, <<"y">>),
       NamedNode(IdFf, "Function", <<"f">>),
       NamedNode(IdFg, "Function", <<"g">>),
       NamedNode(IdK, "Class", <<"K">>),
       NamedNode(IdK2, "Class", <<"B">>),
       NamedNode(IdT, "Type", <<"T">>),
       NamedNode(IdD, "Domain", <<"d">>),
       NamedNode(IdS, "Subdomain", <<"s">>),
       Node(IdDa, <<"Directory">>, [path |-> Str(<<"a">>), name |-> Str(<<"a">>)]),
       Node(IdDb, <<"Directory">>, [path |-> Str(<<"a","/","b">>)]),
       NamedNode(IdD0, "Domain", << >>),
       FileNode(IdF0, << >>) >>

ZooPool ==
    << Relationship("IMPORTS", IdFy, IdFa),
       Relationship("DEFINES_FUNCTION", IdFy, IdFf),
       Relationship("calls", IdFf, IdFg),
       Relationship("DECLARES_CLASS", IdFa, IdK),
       Relationship("EXTENDS", IdK, IdK2),
       Relationship("DEFINES", IdFa, IdT),
       Relationship("belongsTo", IdFf, IdS),
       Relationship("partOf", IdS, IdD),
       Relationship("belongsTo", IdFg, IdD),
       Relationship("CONTAINS_FILE", IdDa, IdFa),
       Relationship("CHILD_DIRECTORY", IdDa, IdDb),
       Relationship("DEFINES_FUNCTION", IdK, IdFg),
       Relationship("belongsTo", IdFy, IdD0),
       Relationship("IMPORTS", IdFa, IdF0),
       Relationship("calls", IdFy, IdFg),
       Relationship("calls", IdFf, IdFy) >>

RECURSIVE Pick(_, _, _)
\* the elements of pool whose positions, counted from i, are in S
Pick(pool, S, i) ==
    IF pool = << >> THEN << >>
    ELSE (IF i \in S THEN <<Head(pool)>> ELSE << >>) \o Pick(Tail(pool), S, i + 1)

ZooInputs ==
    { [docs |-> <<EnvelopeDoc(Graph(ZooNodes, Pick(ZooPool, S, 1)))>>, budget |-> 0] :
         S \in {T \in SUBSET (1..Len(ZooPool)) : Cardinality(T) <= MaxZooRels} }
    \cup { [docs |-> <<EnvelopeDoc(Graph(ZooNodes, ZooPool))>>,
            budget |-> MaxWriteFailures] }

InitRender == \E in \in SamplerInputs \cup ZooInputs : InitWith(in.docs, in.budget)

SpecRender == InitRender /\ [][Next]_vars

\* --- FAQ family: a centre with one list of k entries, k around the caps of
\* the FAQ answers; the lists grouped by a map loop stay short
FaqSizes == {1, ListCap, ListCap + 1, FuncListCap, FuncListCap + 1, 2 * ListCap + 2}
FaqShapes == {"out", "in", "calls", "defines", "subdirs"}
GroupedSizes == {1, 2, 3}
GroupedShapes == {"subdomains", "subfuncs"}
FaqInputs ==
    { <<EnvelopeDoc(Graph(SamplerNodes(k, sh), SamplerRels(k, sh)))>> :
         k \in FaqSizes, sh \in FaqShapes }
    \cup { <<EnvelopeDoc(Graph(SamplerNodes(k, sh), SamplerRels(k, sh)))>> :
              k \in GroupedSizes, sh \in GroupedShapes }

InitFaq == \E docs \in FaqInputs : InitWith(docs, 0)

SpecFaq == InitFaq /\ [][Next]_vars

\* --- kinds family: two nodes n1, n2 of any two kinds (no label, an
\* unrecognised first label, every recognised label with and without a usable
\* recipe, Directories at and under /app/repo-root) and a Domain D; n1
\* imports n2 and belongs to D
RootPath == <<"/","a","p","p","/","r","e","p","o","-","r","o","o","t">>
NodeKinds ==
    { [labels |-> << >>, props |-> [name |-> Str(<<"x">>), path |-> Str(<<"x">>)]],
      [labels |-> <<"Other", "File">>, props |-> [path |-> Str(<<"o">>)]],
      [labels |-> <<"File">>, props |-> [path |-> Str(<<"a">>)]],
      [labels |-> <<"File">>, props |-> [name |-> Str(<<"a">>)]],
      [labels |-> <<"Function">>, props |-> [name |-> Str(<<"f">>)]],
      [labels |-> <<"Function">>, props |-> [filePath |-> Str(<<"a">>)]],
      [labels |-> <<"Class", "Other">>, props |-> [name |-> Str(<<"k">>)]],
      [labels |-> <<"Type">>, props |-> [name |-> Str(<< >>), path |-> Str(<<"t">>)]],
      [labels |-> <<"Subdomain">>, props |-> [name |-> Str(<<"s">>)]],
      [labels |-> <<"Subdomain">>, props |-> [path |-> Str(<<"s">>)]],
      [labels |-> <<"Directory">>, props |-> [path |-> Str(<<"s">>)]],
      [labels |-> <<"Directory">>, props |-> [name |-> Str(<<"s">>)]],
      [labels |-> <<"Directory">>, props |-> [path |-> Str(RootPath \o <<"/", "s">>)]],
      [labels |-> <<"Directory">>, props |-> [path |-> Str(RootPath)]] }

KindsGraph(k1, k2) ==
    Graph(<<Node(NId(1), k1.labels, k1.props), Node(NId(2), k2.labels, k2.props),
            NamedNode(IdD, "Domain", <<"d">>)>>,
          <<Relationship("IMPORTS", NId(1), NId(2)),
            Relationship("belongsTo", NId(1), IdD)>>)

KindsInputs == { <<EnvelopeDoc(KindsGraph(k1, k2))>> : k1 \in NodeKinds, k2 \in NodeKinds }

InitKinds == \E docs \in KindsInputs : InitWith(docs, 0)

SpecKinds == InitKinds /\ [][Next]_vars


\* --- ownership family: a File F that defines function FN and declares class CL
\* with method M, domains D1 and D2, subdomains S1 (partOf D1) and S2 (partOf
\* D2), followed by MaxOwnEdges membership edges drawn from OwnEdgePool
IdF == <<"F">>
IdFN == <<"f","n">>
IdCL == <<"c","l">>
IdM == <<"m">>
IdD1 == <<"D","1">>
IdD2 == <<"D","2">>
IdS1 == <<"S","1">>
IdS2 == <<"S","2">>
NameD1 == <<"d","1">>
NameD2 == <<"d","2">>
NameS1 == <<"s","1">>
NameS2 == <<"s","2">>

OwnNodes ==
    << FileNode(IdF, <<"s","r","c","/","a">>),
       NamedNode(IdFN, "Function", <<"r","u","n">>),
       NamedNode(IdCL, "Class", <<"K">>),
       NamedNode(IdM, "Function", <<"g","e","t">>),
       NamedNode(IdD1, "Domain", NameD1),
       NamedNode(IdD2, "Domain", NameD2),
       NamedNode(IdS1, "Subdomain", NameS1),
       NamedNode(IdS2, "Subdomain", NameS2) >>

OwnFixedRels ==
    << Relationship("DEFINES_FUNCTION", IdF, IdFN),
       Relationship("DECLARES_CLASS", IdF, IdCL),
       Relationship("DEFINES_FUNCTION", IdCL, IdM),
       Relationship("partOf", IdS1, IdD1),
       Relationship("partOf", IdS2, IdD2) >>

OwnEdgePool ==
    { Relationship("belongsTo", IdF, IdD1),
      Relationship("belongsTo", IdF, IdD2),
      Relationship("belongsTo", IdF, IdS1),
      Relationship("belongsTo", IdF, IdS2),
      Relationship("belongsTo", IdFN, IdD2),
      Relationship("belongsTo", IdFN, IdS1),
      Relationship("belongsTo", IdM, IdS2),
      Relationship("partOf", IdS1, IdD2) }

OwnInputs ==
    { <<EnvelopeDoc(Graph(OwnNodes, OwnFixedRels \o es))>> :
         es \in [1..MaxOwnEdges -> OwnEdgePool] }

InitOwn == \E docs \in OwnInputs : InitWith(docs, 0)

SpecOwn == InitOwn /\ [][Next]_vars

\* --- inference family: a File F that defines functions f1, f2 and declares
\* classes c1 (with method m1) and c2, in this order; every member x of them
\* has a Domain Dx of its own, f2, m1 and c2 have a Subdomain Sx of their own;
\* a second File G and an identifier z of no node; up to MaxInferEdges
\* of the edges of InferPool, in pool order
InferMembers == <<"f1", "f2", "c1", "m1", "c2">>
IdG == <<"G">>
IdGone == <<"z">>
MemberId(x) == CASE x = "f1" -> <<"f","1">> [] x = "f2" -> <<"f","2">>
                 [] x = "c1" -> <<"c","1">> [] x = "m1" -> <<"m","1">>
                 [] x = "c2" -> <<"c","2">>
DomainIdOf(x) == <<"D">> \o MemberId(x)
DomainNameOf(x) == <<"d">> \o MemberId(x)
SubdomainIdOf(x) == <<"S">> \o MemberId(x)
SubdomainNameOf(x) == <<"s">> \o MemberId(x)

InferNodes ==
    << FileNode(IdF, <<"s","r","c","/","a">>),
       FileNode(IdG, <<"s","r","c","/","b">>),
       NamedNode(MemberId("f1"), "Function", <<"o","n","e">>),
       NamedNode(MemberId("f2"), "Function", <<"t","w","o">>),
       NamedNode(MemberId("c1"), "Class", <<"K">>),
       NamedNode(MemberId("m1"), "Function", <<"g","e","t">>),
       NamedNode(MemberId("c2"), "Class", <<"L">>) >>
    \o [i \in 1..Len(InferMembers) |->
           NamedNode(DomainIdOf(InferMembers[i]), "Domain", DomainNameOf(InferMembers[i]))]
    \o [i \in 1..Len(InferMembers) |->
           NamedNode(SubdomainIdOf(InferMembers[i]), "Subdomain",
                     SubdomainNameOf(InferMembers[i]))]

InferFixedRels ==
    << Relationship("DEFINES_FUNCTION", IdF, MemberId("f1")),
       Relationship("DEFINES_FUNCTION", IdF, MemberId("f2")),
       Relationship("DECLARES_CLASS", IdF, MemberId("c1")),
       Relationship("DECLARES_CLASS", IdF, MemberId("c2")),
       Relationship("DEFINES_FUNCTION", MemberId("c1"), MemberId("m1")) >>

InferPool ==
    << Relationship("belongsTo", MemberId("c2"), DomainIdOf("c2")),
       Relationship("belongsTo", MemberId("m1"), DomainIdOf("m1")),
       Relationship("belongsTo", MemberId("c1"), DomainIdOf("c1")),
       Relationship("belongsTo", MemberId("f2"), DomainIdOf("f2")),
       Relationship("belongsTo", MemberId("f1"), DomainIdOf("f1")),
       Relationship("belongsTo", MemberId("c2"), SubdomainIdOf("c2")),
       Relationship("belongsTo", MemberId("m1"), SubdomainIdOf("m1")),
       Relationship("belongsTo", MemberId("f2"), SubdomainIdOf("f2")),
       Relationship("partOf", SubdomainIdOf("m1"), DomainIdOf("f1")),
       Relationship("belongsTo", IdF, DomainIdOf("c1")),
       Relationship("belongsTo", IdG, DomainIdOf("c1")),
       Relationship("belongsTo", IdGone, DomainIdOf("c1")) >>

InferInputs ==
    { <<EnvelopeDoc(Graph(InferNodes, InferFixedRels \o Pick(InferPool, S, 1)))>> :
         S \in {T \in SUBSET (1..Len(InferPool)) : Cardinality(T) <= MaxInferEdges} }

InitInfer == \E docs \in InferInputs : InitWith(docs, 0)

SpecInfer == InitInfer /\ [][Next]_vars

\* ================================================================== claims
\* pass 1 has visited every node
\* every family
Init ==
    \/ InitSlug \/ InitMerge \/ InitOwn \/ InitRender
    \/ InitLoad \/ InitIndex \/ InitInfer \/ InitFaq \/ InitKinds

Spec == Init /\ [][Next]_vars

\* ------------------------------------------------------------------ claims
Pass1Over == pc \in {"pass2", "done"}

\* C1: after pass 1, no two distinct node identifiers of the slug table map to
\* the same slug string.
SlugUniqueness ==
    Pass1Over =>
        \A a \in DOMAIN slugLookup, b \in DOMAIN slugLookup :
            a # b => slugLookup[a] # slugLookup[b]

\* how many entries before entry j have the base slug of entry j
EarlierClaims(j) ==
    Cardinality({i \in 1..(j - 1) : BaseSlug(entries[i].node) = BaseSlug(entries[j].node)})

\* C2 as stated: the first entity of a base slug s receives s, the i-th
\* subsequent one receives s-i.
SlugNumberingFromOne ==
    \A j \in 1..Len(entries) :
        entries[j].slug =
            IF EarlierClaims(j) = 0 THEN BaseSlug(entries[j].node)
            ELSE BaseSlug(entries[j].node) \o <<"-">> \o Itoa(EarlierClaims(j))

\* C2 amended: the first entity of a base slug s receives s, the i-th
\* subsequent one receives s-(i+1), in node-list order.
SlugNumberingFromTwo ==
    \A j \in 1..Len(entries) :
        /\ entries[j].slug =
              IF EarlierClaims(j) = 0 THEN BaseSlug(entries[j].node)
              ELSE BaseSlug(entries[j].node) \o <<"-">> \o Itoa(EarlierClaims(j) + 1)
        /\ slugLookup[entries[j].node.ID] = entries[j].slug

\* C2 witness: three entities of one base slug have been slugged: s, s-2, s-3
SlugThreeClaims ==
    /\ pc = "done"
    /\ \E j \in 1..Len(entries) :
         /\ EarlierClaims(j) = 2
         /\ entries[j].slug = BaseSlug(entries[j].node) \o <<"-", "3">>

RECURSIVE ConcatLoaded(_)
\* the node lists of the documents that load, concatenated in input order
ConcatLoaded(docs) ==
    IF docs = << >> THEN << >>
    ELSE (IF loadGraph(Head(docs)).err THEN << >> ELSE loadGraph(Head(docs)).nodes)
         \o ConcatLoaded(Tail(docs))

\* the nodes of the documents the load loop has visited
NodesSeen == ConcatLoaded(SubSeq(inputFiles, 1, li - 1))

\* C3: the merged node list holds each identifier of the loaded graphs exactly
\* once, and the node kept is the first one with that identifier in input
\* order (earliest graph, earliest position), labels and properties unmerged.
MergeDedup ==
    /\ \A i \in 1..Len(allNodes), j \in 1..Len(allNodes) :
          i # j => allNodes[i].ID # allNodes[j].ID
    /\ {allNodes[i].ID : i \in 1..Len(allNodes)} = {NodesSeen[k].ID : k \in 1..Len(NodesSeen)}
    /\ \A i \in 1..Len(allNodes) :
          \E k \in 1..Len(NodesSeen) :
             /\ NodesSeen[k] = allNodes[i]
             /\ \A k2 \in 1..(k - 1) : NodesSeen[k2].ID # allNodes[i].ID

\* C3 witness: two graphs were merged that hold different nodes under one
\* identifier, and the later one was dropped
MergeDroppedDuplicate ==
    /\ pc = "done"
    /\ ~loadGraph(inputFiles[1]).err /\ ~loadGraph(inputFiles[2]).err
    /\ \E n \in Range(loadGraph(inputFiles[1]).nodes), m \in Range(loadGraph(inputFiles[2]).nodes) :
         /\ n.ID = m.ID
         /\ n.Labels # m.Labels
         /\ nodeLookup[n.ID].Labels # m.Labels

\* the positions in the relationship list of the belongsTo edges from id to an
\* existing node that has label but not notLabel
DirectEdges(id, label, notLabel) ==
    {r \in 1..Len(allRels) :
        /\ allRels[r].Type = "belongsTo"
        /\ allRels[r].StartNode = id
        /\ \E i \in 1..Len(allNodes) :
              /\ allNodes[i].ID = allRels[r].EndNode
              /\ hasLabel(allNodes[i], label)
              /\ (notLabel = "" \/ ~hasLabel(allNodes[i], notLabel))}

\* the name of the node with identifier id
NameOf(id) ==
    LET i == CHOOSE k \in 1..Len(allNodes) : allNodes[k].ID = id
    IN getStr(allNodes[i].Properties, "name")

Max(S) == CHOOSE x \in S : \A y \in S : y <= x
Min(S) == CHOOSE x \in S : \A y \in S : x <= y

\* the relation indexer has finished
Indexed == pc \notin {"load", "index"}
\* the ownership resolver has finished
Resolved == pc \in {"members", "pass1", "pass2", "done"}

\* a step of inference or propagation leaves the domain of every node with a
\* direct belongsTo edge to a Domain node as it was
DirectDomainStep ==
    pc \in {"inferDomain", "inferSubdomain", "propagate"} =>
        \A i \in 1..Len(allNodes) :
            DirectEdges(allNodes[i].ID, "Domain", "") # {} =>
                (/\ Has(belongsToDomain, allNodes[i].ID)
                 /\ Has(belongsToDomain', allNodes[i].ID)
                 /\ belongsToDomain'[allNodes[i].ID] = belongsToDomain[allNodes[i].ID])

\* C4: a node with a direct belongsTo edge to a Domain node keeps the domain
\* set at index time through file-level inference and propagation.
DirectDomainKept == [][DirectDomainStep]_vars

\* C4 witness: F has a direct edge to D1 while its function belongs to D2 and
\* its subdomain is part of D2, and F ends in d1
DirectDomainAgainstChildren ==
    /\ pc = "done"
    /\ DirectEdges(IdF, "Domain", "") # {}
    /\ belongsToDomain[IdF] = NameD1
    /\ Get(belongsToDomain, IdFN) = NameD2
    /\ Get(belongsToSubdomain, IdF) = NameS2
    /\ Get(partOfDomain, IdS2) = NameD2

\* the Subdomain node registered under the name S: the last node of that name
\* with the Subdomain label and without the Domain label
SubdomainNodesNamed(S) ==
    {i \in 1..Len(allNodes) :
        /\ hasLabel(allNodes[i], "Subdomain")
        /\ ~hasLabel(allNodes[i], "Domain")
        /\ getStr(allNodes[i].Properties, "name") = S}

\* the partOf edges from identifier x to an existing node
PartOfEdges(x) ==
    {r \in 1..Len(allRels) :
        /\ allRels[r].Type = "partOf"
        /\ allRels[r].StartNode = x
        /\ \E i \in 1..Len(allNodes) : allNodes[i].ID = allRels[r].EndNode}

\* the domain name D a subdomain name S leads to: the name at the end of the
\* last partOf edge of the Subdomain node registered under S; << >> when none
PartOfTarget(S) ==
    IF S = << >> \/ SubdomainNodesNamed(S) = {} THEN << >>
    ELSE LET x == allNodes[Max(SubdomainNodesNamed(S))].ID
         IN IF PartOfEdges(x) = {} THEN << >>
            ELSE NameOf(allRels[Max(PartOfEdges(x))].EndNode)

RECURSIVE IndexedDomains(_, _)
\* belongsToDomain as the relation indexer leaves it
IndexedDomains(rels, m) ==
    IF rels = << >> THEN m
    ELSE IndexedDomains(Tail(rels), BelongsToDomainAfter(m, Head(rels), nodeLookup))

\* belongsToDomain as file-level inference leaves it
DomainsBeforePropagation ==
    InferForFiles(allNodes, IndexedDomains(allRels, EmptyMap), definesFunc, declaresClass)

Kept(m, mNext) == \A id \in DOMAIN m : id \in DOMAIN mNext /\ mNext[id] = m[id]

KeptBoth ==
    /\ Kept(belongsToDomain, belongsToDomain')
    /\ Kept(belongsToSubdomain, belongsToSubdomain')

\* C6 as stated: once a node has a domain (or subdomain) assignment, no later
\* step overwrites it.
OwnershipNeverOverwritten == [][KeptBoth]_vars

\* the last direct edge decides the assignment the indexer leaves
LastEdgeWins(m, label, notLabel) ==
    \A i \in 1..Len(allNodes) :
        LET id == allNodes[i].ID
            edges == DirectEdges(id, label, notLabel)
        IN edges # {} =>
              /\ Has(m, id)
              /\ m[id] = NameOf(allRels[Max(edges)].EndNode)

\* C6 amended: once the relation indexer has finished, no later step
\* overwrites a domain or subdomain assignment; of two belongsTo edges from
\* one node to two Domain nodes (or two Subdomain nodes) the later edge gives
\* the final assignment.
OwnershipLastEdgeThenKept ==
    /\ [][Indexed => KeptBoth]_vars
    /\ [](Indexed => (/\ LastEdgeWins(belongsToDomain, "Domain", "")
                      /\ LastEdgeWins(belongsToSubdomain, "Subdomain", "Domain")))

\* C6 witness: F has direct edges to D1 and then D2, and to S1 and then S2 in
\* another run; here the two Domain edges, and F ends in the later one
TwoDomainEdges ==
    /\ pc = "done"
    /\ Cardinality(DirectEdges(IdF, "Domain", "")) = 2
    /\ NameOf(allRels[Min(DirectEdges(IdF, "Domain", ""))].EndNode)
          # NameOf(allRels[Max(DirectEdges(IdF, "Domain", ""))].EndNode)
    /\ belongsToDomain[IdF] = NameOf(allRels[Max(DirectEdges(IdF, "Domain", ""))].EndNode)

\* the documents written so far
Written == {outputDir[k] : k \in DOMAIN outputDir}

\* a rendering has begun or may begin
Rendering == pc \in {"pass2", "done"} \/ ei > 1 \/ outputDir # EmptyMap

\* C7: rendering starts only after merge, indexing, ownership resolution and
\* slug allocation are over for all nodes: the slug table read by any
\* rendering holds the slug of every slugged node, and every slug a written
\* document quotes is the one in the table.
RenderBarrier ==
    Rendering =>
        /\ li > Len(inputFiles)
        /\ ri > Len(allRels)
        /\ Resolved
        /\ si > Len(allNodes)
        /\ \A i \in 1..Len(allNodes) :
              BaseSlug(allNodes[i]) # << >> => Has(slugLookup, allNodes[i].ID)
        /\ \A d \in Written : \A i \in 1..Len(d.graph_data.Nodes) :
              d.graph_data.Nodes[i].Slug = Get(slugLookup, d.graph_data.Nodes[i].ID)

\* C7 witness: the document of the first node quotes the slug of the second
\* node, allocated after its own
QuotesLaterSlug ==
    /\ pc = "done"
    /\ \E d \in Written :
          /\ d.id = NId(1)
          /\ \E i \in 1..Len(d.graph_data.Nodes) :
                /\ d.graph_data.Nodes[i].ID = NId(2)
                /\ d.graph_data.Nodes[i].Slug # << >>
                /\ d.graph_data.Nodes[i].Slug = slugLookup[NId(2)]

\* C9: the graph_data export of every document holds at most 31 nodes, the
\* centre first and no identifier twice.
NeighborhoodCap ==
    \A d \in Written :
        LET nodes == d.graph_data.Nodes
        IN /\ Len(nodes) <= 31
           /\ d.graph_data.present => nodes[1].ID = d.id
           /\ \A i, j \in 1..Len(nodes) : i # j => nodes[i].ID # nodes[j].ID

\* C9 witness: a centre with more than 30 distinct existing neighbours, whose
\* export stops at 31 nodes
CapReached ==
    \E d \in Written :
        /\ d.id = IdC
        /\ Cardinality({Get(imports, IdC)[i] : i \in 1..Len(Get(imports, IdC))}
                       \cap DOMAIN nodeLookup) > 30
        /\ Len(d.graph_data.Nodes) = 31

\* the sections of document d titled "FAQs"
FaqSections(d) == {i \in 1..Len(d.sections) : d.sections[i].title = "FAQs"}

\* the entry document d was rendered from
EntryOf(d) == CHOOSE i \in 1..Len(entries) : entries[i].slug = d.slug /\ entries[i].node.ID = d.id

\* C10: a document has a FAQs section iff at least 2 candidate pairs were
\* generated for its entity; it then has exactly one, holding every candidate
\* in generation order; an entity with 1 candidate has none.
FaqGateHolds ==
    \A d \in Written :
        LET faqs == faqCandidates(Context(entries[EntryOf(d)]))
        IN /\ (FaqSections(d) # {}) <=> (Len(faqs) >= 2)
           /\ Cardinality(FaqSections(d)) <= 1
           /\ \A i \in FaqSections(d) : d.sections[i].items = faqs
           /\ Len(faqs) = 1 => FaqSections(d) = {}

\* C10 witness: one run wrote a document of an entity with exactly 1
\* candidate, without the section, and one of an entity with 3, with it
FaqBothSides ==
    /\ \E d \in Written :
          /\ Len(faqCandidates(Context(entries[EntryOf(d)]))) = 1
          /\ FaqSections(d) = {}
    /\ \E d \in Written :
          /\ Len(faqCandidates(Context(entries[EntryOf(d)]))) = 3
          /\ Cardinality(FaqSections(d)) = 1

\* the render context of entry e in a run whose four map loops visited their
\* keys in the orders o1..o4
ContextUnder(e, o1, o2, o3, o4) ==
    [Context(e) EXCEPT
        !.domainSubdomains = GroupByValue(o1, partOfDomain, EmptyMap),
        !.subdomainFuncs =
            GroupLabelled(o2, belongsToSubdomain, nodeLookup, "Function", "", EmptyMap),
        !.subdomainClasses =
            GroupLabelled(o2, belongsToSubdomain, nodeLookup, "Class", "Function", EmptyMap),
        !.domainFiles =
            GroupLabelled(o3, belongsToDomain, nodeLookup, "File", "", EmptyMap),
        !.subdomainFiles =
            GroupLabelled(o4, belongsToSubdomain, nodeLookup, "File", "", EmptyMap)]

\* C8: the documents a run wrote are the documents of every run on the same
\* input, whatever order the map loops take: same slug, same sections, same
\* graph_data and diagram exports.
Deterministic ==
    pc = "done" =>
        \A o1 \in Perms(DOMAIN partOfDomain), o2 \in Perms(DOMAIN belongsToSubdomain),
           o3 \in Perms(DOMAIN belongsToDomain), o4 \in Perms(DOMAIN belongsToSubdomain) :
            \A i \in 1..Len(entries) :
                (/\ Has(outputDir, entries[i].slug)
                 /\ outputDir[entries[i].slug].id = entries[i].node.ID)
                => outputDir[entries[i].slug]
                      = generateMarkdown(ContextUnder(entries[i], o1, o2, o3, o4))

\* ---- references of a body, stated from the tables the run has built
\* the name shown for identifier id
NameShown(id) ==
    IF id \in DOMAIN nodeLookup /\ getStr(nodeLookup[id].Properties, "name") # << >>
    THEN getStr(nodeLookup[id].Properties, "name")
    ELSE id

\* the path shown for identifier id, the name or the identifier when it has none
PathShown(id) ==
    IF id \notin DOMAIN nodeLookup THEN id
    ELSE LET props == nodeLookup[id].Properties
         IN IF getStr(props, "path") # << >> THEN getStr(props, "path")
            ELSE IF getStr(props, "filePath") # << >> THEN getStr(props, "filePath")
            ELSE NameShown(id)

Display(kind, id) ==
    CASE kind = "name" -> NameShown(id)
      [] kind = "call" -> NameShown(id) \o <<"(", ")">>
      [] kind = "path" -> PathShown(id)
      [] kind = "dir" -> PathShown(id) \o <<"/">>

\* the reference to identifier id shown as text: a hyperlink to the slug of id
\* when the slug table has one, escaped plain text otherwise
ExpectedRef(id, text) ==
    IF id \in DOMAIN slugLookup
    THEN [linked |-> TRUE, slug |-> slugLookup[id], text |-> HtmlEscape(text)]
    ELSE [linked |-> FALSE, slug |-> << >>, text |-> HtmlEscape(text)]

\* the reference to the domain or subdomain called name
ExpectedNamedRef(byName, name) ==
    IF name \in DOMAIN byName THEN ExpectedRef(byName[name], name)
    ELSE [linked |-> FALSE, slug |-> << >>, text |-> HtmlEscape(name)]

ExpectedList(title, kind, ids) ==
    [title |-> title, kind |-> kind, ids |-> ids,
     refs |-> [k \in 1..Len(ids) |-> ExpectedRef(ids[k], Display(kind, ids[k]))]]

ExpectedOne(title, present, ref) ==
    [title |-> title, kind |-> "one", ids |-> << >>,
     refs |-> IF present THEN <<ref>> ELSE << >>]

\* the Domain and Subdomains references of a File, Function, Class or Type
ExpectedOwnership(id) ==
    { ExpectedOne("Domain", Has(belongsToDomain, id),
                  ExpectedNamedRef(domainNodeByName, Get(belongsToDomain, id))),
      ExpectedOne("Subdomains", Has(belongsToDomain, id) /\ Has(belongsToSubdomain, id),
                  ExpectedNamedRef(subdomainNodeByName, Get(belongsToSubdomain, id))) }

ExpectedDefinedIn(fileOf, id) ==
    { ExpectedOne("Defined In", Has(fileOf, id),
                  ExpectedRef(Get(fileOf, id), PathShown(Get(fileOf, id)))) }

\* the reference sections the body of entry e is to have, those with no
\* reference being left out of the body
ExpectedSections(e) ==
    LET id == e.node.ID
        name == getStr(e.node.Properties, "name")
    IN CASE e.label = "File" ->
              ExpectedOwnership(id) \cup
              { ExpectedList("Functions", "call", Get(definesFunc, id)),
                ExpectedList("Classes", "name", Get(declaresClass, id)),
                ExpectedList("Types", "name", Get(definesType, id)),
                ExpectedList("Dependencies", "name", Get(imports, id)),
                ExpectedList("Imported By", "path", Get(importedBy, id)) }
         [] e.label = "Function" ->
              ExpectedOwnership(id) \cup ExpectedDefinedIn(fileOfFunc, id) \cup
              { ExpectedList("Calls", "call", Get(callsRel, id)),
                ExpectedList("Called By", "call", Get(calledByRel, id)) }
         [] e.label = "Class" ->
              ExpectedOwnership(id) \cup ExpectedDefinedIn(fileOfClass, id) \cup
              { ExpectedList("Extends", "name", Get(extendsRel, id)) }
         [] e.label = "Type" ->
              ExpectedOwnership(id) \cup ExpectedDefinedIn(fileOfType, id)
         [] e.label = "Domain" ->
              { ExpectedList("Subdomains", "name", Get(domainSubdomains, name)),
                ExpectedList("Source Files", "path", Get(domainFiles, name)) }
         [] e.label = "Subdomain" ->
              { ExpectedOne("Domain", Get(partOfDomain, id) # << >>,
                            ExpectedNamedRef(domainNodeByName, Get(partOfDomain, id))),
                ExpectedList("Functions", "call", Get(subdomainFuncs, name)),
                ExpectedList("Classes", "name", Get(subdomainClasses, name)),
                ExpectedList("Source Files", "path", Get(subdomainFiles, name)) }
         [] e.label = "Directory" ->
              { ExpectedList("Subdirectories", "dir", Get(childDir, id)),
                ExpectedList("Files", "name", Get(containsFile, id)) }

Count(x, s) == Cardinality({i \in 1..Len(s) : s[i] = x})
\* s and t hold the same elements the same number of times
SameBag(s, t) == Len(s) = Len(t) /\ \A i \in 1..Len(s) : Count(s[i], s) = Count(s[i], t)

SectionsTitled(d, title) == {i \in 1..Len(d.sections) : d.sections[i].title = title}

\* the body of document d has exactly the expected reference sections, each
\* with exactly the expected references
BodyAsExpected(d) ==
    LET exp == ExpectedSections(entries[EntryOf(d)])
    IN /\ \A x \in exp :
             IF x.refs = << >> THEN SectionsTitled(d, x.title) = {}
             ELSE /\ Cardinality(SectionsTitled(d, x.title)) = 1
                  /\ \A i \in SectionsTitled(d, x.title) :
                        SameBag(d.sections[i].items, x.refs)
       /\ \A i \in 1..Len(d.sections) :
             d.sections[i].title \in {"Source", "FAQs"} \cup {x.title : x \in exp}

\* C11: every reference of a written body is a hyperlink to /<slug>.html of
\* the referenced identifier when the slug table has it and escaped plain text
\* otherwise; and a run without write failure ends with the document of every
\* entry, dangling endpoints or not.
ReferenceDegradation ==
    /\ \A d \in Written : BodyAsExpected(d)
    /\ (pc = "done" /\ writeErrors = 0) =>
          \A i \in 1..Len(entries) : Has(outputDir, entries[i].slug)

\* C11 witness: the centre imports an identifier that is in no graph and a
\* File with a slug; its Dependencies section shows the first as plain text
\* and the second as a hyperlink
DanglingShownPlain ==
    \E d \in Written :
        /\ d.id = IdC
        /\ Ghost(1) \notin DOMAIN nodeLookup
        /\ \E i \in SectionsTitled(d, "Dependencies") :
              /\ \E k \in 1..Len(d.sections[i].items) :
                    d.sections[i].items[k] =
                        [linked |-> FALSE, slug |-> << >>, text |-> Ghost(1)]
              /\ \E k \in 1..Len(d.sections[i].items) :
                    /\ d.sections[i].items[k].linked
                    /\ d.sections[i].items[k].slug = slugLookup[NId(1)]

RECURSIVE ConcatLoadedRels(_)
\* the relationships of the documents of docs that load, in input order
ConcatLoadedRels(docs) ==
    IF docs = << >> THEN << >>
    ELSE (IF loadGraph(Head(docs)).err THEN << >> ELSE loadGraph(Head(docs)).rels)
         \o ConcatLoadedRels(Tail(docs))

\* the documents of the input that fail to load
Failing == {i \in 1..Len(inputFiles) : loadGraph(inputFiles[i]).err}

RECURSIVE FirstOfEach(_, _)
\* nodes without the nodes whose identifier an earlier node has
FirstOfEach(nodes, seen) ==
    IF nodes = << >> THEN << >>
    ELSE IF Head(nodes).ID \in seen THEN FirstOfEach(Tail(nodes), seen)
    ELSE <<Head(nodes)>> \o FirstOfEach(Tail(nodes), seen \cup {Head(nodes).ID})

\* C12: a graph that fails to load contributes nothing, the other graphs are
\* loaded and merged in input order and the run goes on to its end; when every
\* graph fails the universe is empty, no document is written and the run ends.
LoadFailureNotFatal ==
    /\ pc # "load" =>
          /\ allNodes = FirstOfEach(ConcatLoaded(inputFiles), {})
          /\ allRels = ConcatLoadedRels(inputFiles)
    /\ pc = "load" => ENABLED (LoadStep \/ LookupStep)
    /\ (pc # "done" /\ Failing = 1..Len(inputFiles)) => ENABLED Next
    /\ (pc = "done" /\ Failing = 1..Len(inputFiles)) =>
          /\ allNodes = << >>
          /\ allRels = << >>
          /\ outputDir = EmptyMap
          /\ count = 0

\* C12 witness: the first document failed to load, the second loaded and its
\* document was written
LoadedAfterFailure ==
    /\ pc = "done"
    /\ Len(inputFiles) = 2
    /\ Failing = {1}
    /\ allNodes # << >>
    /\ count > 0

\* a step in which a write fails skips that one document and nothing else:
\* the loop moves to the next entry, no document is counted or stored, and the
\* slug table and the indices stay as they are
WriteFailureStep ==
    writeErrors' # writeErrors =>
        /\ writeErrors' = writeErrors + 1
        /\ ei' = ei + 1
        /\ pc' = pc
        /\ count' = count
        /\ outputDir' = outputDir
        /\ UNCHANGED <<loadVars, nodeLookup, adjVars, ownVars, nameVars, groupVars,
                       memberVars, slugVars>>

\* every entry was rendered, and written unless its write failed
AllEntriesVisited ==
    pc = "done" =>
        /\ ei = Len(entries) + 1
        /\ count + writeErrors = Len(entries)
        /\ Cardinality(DOMAIN outputDir) = count

\* C13: a failed write skips that document only: it is not counted, every
\* later entry is still rendered and written, and the slug table and the
\* indices are unchanged by the failure.
WriteFailureNotFatal == [][WriteFailureStep]_vars /\ []AllEntriesVisited

\* C13 witness: the write of the first entry failed and the documents of all
\* later entries were written
WrittenAfterFailure ==
    /\ pc = "done"
    /\ writeErrors = 1
    /\ Len(entries) > 2
    /\ ~Has(outputDir, entries[1].slug)
    /\ \A i \in 2..Len(entries) : Has(outputDir, entries[i].slug)
    /\ count = Len(entries) - 1

\* C14: at the end of a run without write failure the documents correspond
\* one to one to the slugged entities: every entity with a slug has its own
\* document under its slug, and no document replaced another entity's.
OneDocumentPerEntity ==
    (pc = "done" /\ writeErrors = 0) =>
        /\ Cardinality(DOMAIN outputDir) = Len(entries)
        /\ \A i \in 1..Len(entries) :
              /\ Has(outputDir, entries[i].slug)
              /\ outputDir[entries[i].slug].id = entries[i].node.ID

RECURSIVE TargetsFrom(_, _, _)
\* the end nodes of the relationships of rels of type relType that start at
\* id, one per relationship, in input order
TargetsFrom(rels, relType, id) ==
    IF rels = << >> THEN << >>
    ELSE (IF Head(rels).Type = relType /\ Head(rels).StartNode = id
          THEN <<Head(rels).EndNode>> ELSE << >>)
         \o TargetsFrom(Tail(rels), relType, id)

\* document d has a section called title exactly when ids is not empty, and
\* the section holds one reference per identifier of ids, shown as kind
SectionPerRelationship(d, title, kind, ids) ==
    /\ (SectionsTitled(d, title) # {}) <=> (Len(ids) > 0)
    /\ Cardinality(SectionsTitled(d, title)) <= 1
    /\ \A i \in SectionsTitled(d, title) :
          SameBag(d.sections[i].items,
                  [k \in 1..Len(ids) |-> ExpectedRef(ids[k], Display(kind, ids[k]))])

\* C15: for every written File document, import_count is the number of
\* IMPORTS relationships starting at the file and function_count the number of
\* DEFINES_FUNCTION relationships starting at it; the body has a Dependencies
\* section iff import_count > 0 and a Functions section iff function_count > 0,
\* each with one reference per such relationship, a hyperlink to the target's
\* slug when the target has one.
FileViewConsistency ==
    \A d \in Written :
        d.label = "File" =>
            LET deps == TargetsFrom(allRels, "IMPORTS", d.id)
                funcs == TargetsFrom(allRels, "DEFINES_FUNCTION", d.id)
            IN /\ d.counts.import_count = Len(deps)
               /\ d.counts.function_count = Len(funcs)
               /\ (SectionsTitled(d, "Dependencies") # {}) <=> (d.counts.import_count > 0)
               /\ (SectionsTitled(d, "Functions") # {}) <=> (d.counts.function_count > 0)
               /\ SectionPerRelationship(d, "Dependencies", "name", deps)
               /\ SectionPerRelationship(d, "Functions", "call", funcs)

\* C15 witness: the document of file y, which imports file a/m and defines
\* function f, has import_count 1 and function_count 1, a Dependencies section
\* linking to the slug of a/m (shown by its identifier, as it has no name) and
\* a Functions section showing f() linked to the slug of f
FileWithOneImportOneFunction ==
    \E d \in Written :
        /\ d.id = IdFy /\ d.label = "File"
        /\ d.counts.import_count = 1 /\ d.counts.function_count = 1
        /\ \E i \in SectionsTitled(d, "Dependencies") :
              d.sections[i].items =
                  <<[linked |-> TRUE, slug |-> slugLookup[IdFa], text |-> IdFa]>>
        /\ \E i \in SectionsTitled(d, "Functions") :
              d.sections[i].items =
                  <<[linked |-> TRUE, slug |-> slugLookup[IdFf], text |-> <<"f","(",")">>]>>

\* the titles of the sections that hold a list of references
ListTitles ==
    {"Functions", "Classes", "Types", "Dependencies", "Imported By", "Calls",
     "Called By", "Extends", "Subdomains", "Source Files", "Subdirectories", "Files"}

\* no reference of items is shown before one whose text is smaller
InOrderOfText(items) ==
    \A k \in 1..(Len(items) - 1) : ~StrLess(items[k + 1].text, items[k].text)

\* C16: in every written body, every list-valued section lists its references
\* in lexicographic order of the name shown for each of them, whatever the
\* order of the relationships in the input.
SortedSections ==
    \A d \in Written :
        \A i \in 1..Len(d.sections) :
            d.sections[i].title \in ListTitles => InOrderOfText(d.sections[i].items)

\* the distinct diagram nodes that the node statements before position p place
PlacedBefore(lines, p) ==
    {lines[j].a : j \in {q \in 1..Len(lines) : q < p /\ lines[q].k = "node"}}

\* the distinct diagram nodes of the entity of entry e and all the neighbours
\* its diagram walks, none for a label that has no diagram
DiagramNodes(e) ==
    IF e.label \notin generateLabels THEN {}
    ELSE LET items == FlatMap(WalkItems, mermaidWalks(Context(e)))
         IN {mermaidID(e.node.ID)} \cup {mermaidID(items[i].id) : i \in 1..Len(items)}

\* C17: the diagram of every written document places at most 15 distinct
\* nodes, the center included; no node statement and no edge statement is
\* added once 15 nodes are placed; and the diagram is left out of the metadata
\* block exactly when fewer than 2 distinct nodes were placed.
DiagramCapAndGate ==
    \A d \in Written :
        LET m == d.mermaid_diagram
            lines == m.lines
        IN /\ m.present =>
                 /\ m.nodeCount = Cardinality(PlacedBefore(lines, Len(lines) + 1))
                 /\ m.nodeCount <= MermaidMaxNodes
                 /\ \A p \in 1..Len(lines) :
                       /\ lines[p].k = "node" =>
                             Cardinality(PlacedBefore(lines, p)) < MermaidMaxNodes
                       /\ lines[p].k = "edge" =>
                             /\ lines[p - 1].k = "node"
                             /\ Cardinality(PlacedBefore(lines, p - 1)) < MermaidMaxNodes
           /\ (~m.present) <=> Cardinality(DiagramNodes(entries[EntryOf(d)])) < 2

\* C17 witness: the center imports more files than the diagram takes: its
\* diagram holds 15 nodes and leaves the last imported file out
DiagramAtCap ==
    \E d \in Written :
        /\ d.id = IdC
        /\ Len(Get(imports, IdC)) = MermaidMaxNodes + 1
        /\ d.mermaid_diagram.present
        /\ d.mermaid_diagram.nodeCount = MermaidMaxNodes
        /\ \A p \in 1..Len(d.mermaid_diagram.lines) :
              d.mermaid_diagram.lines[p].a # mermaidID(NId(MermaidMaxNodes + 1))

\* the relationships of type relType that start at id, and those that end at id
EdgesFrom(relType, id) ==
    {i \in 1..Len(allRels) : allRels[i].Type = relType /\ allRels[i].StartNode = id}
EdgesTo(relType, id) ==
    {i \in 1..Len(allRels) : allRels[i].Type = relType /\ allRels[i].EndNode = id}

\* the tag list of document d holds the tag called n
TagNamed(d, n) == \E i \in 1..Len(d.tags) : d.tags[i].name = n

\* C18: the tag list of a written document contains Isolated iff the
\* entity's primary label is File and it has zero outgoing IMPORTS edges, zero
\* incoming IMPORTS edges and zero outgoing calls edges.
IsolatedTag ==
    \A d \in Written :
        TagNamed(d, "Isolated") <=>
            /\ d.label = "File"
            /\ EdgesFrom("IMPORTS", d.id) = {}
            /\ EdgesTo("IMPORTS", d.id) = {}
            /\ EdgesFrom("calls", d.id) = {}

\* C19: for every written document, the tag list contains High-Dependency iff
\* the entity's imported-by count or called-by count is at least 5,
\* Many-Imports iff its import count is at least 5, and Complex iff its
\* defined-function count is at least 10 or its declared-class count is at
\* least 5; and every raw label of the node is in the tag list.
ThresholdTags ==
    \A d \in Written :
        /\ TagNamed(d, "High-Dependency") <=>
              \/ Cardinality(EdgesTo("IMPORTS", d.id)) >= 5
              \/ Cardinality(EdgesTo("calls", d.id)) >= 5
        /\ TagNamed(d, "Many-Imports") <=> Cardinality(EdgesFrom("IMPORTS", d.id)) >= 5
        /\ TagNamed(d, "Complex") <=>
              \/ Cardinality(EdgesFrom("DEFINES_FUNCTION", d.id)) >= 10
              \/ Cardinality(EdgesFrom("DECLARES_CLASS", d.id)) >= 5
        /\ LET labels == entries[EntryOf(d)].node.Labels
           IN \A i \in 1..Len(labels) : TagNamed(d, labels[i])

\* C19 witness: the center imports exactly 5 files and is imported by the same
\* 5: its tags are its label File, High-Dependency and Many-Imports, and not
\* Complex
TagsAtThreshold ==
    \E d \in Written :
        /\ d.id = IdC
        /\ Cardinality(EdgesFrom("IMPORTS", IdC)) = 5
        /\ Cardinality(EdgesTo("IMPORTS", IdC)) = 5
        /\ TagNamed(d, "File")
        /\ TagNamed(d, "High-Dependency")
        /\ TagNamed(d, "Many-Imports")
        /\ ~TagNamed(d, "Complex")

\* the three shapes of a document in the order the loader tries them: whether
\* the shape is there, and the graph it holds
Shapes(doc) ==
    << [there |-> ~doc.readErr /\ doc.apiOK /\ doc.hasResult, g |-> doc.resultGraph],
       [there |-> ~doc.readErr /\ doc.grOK, g |-> doc.graphKey],
       [there |-> ~doc.readErr /\ doc.gOK, g |-> doc.top] >>

\* the shapes of doc that are there with a node list that is not empty
ShapesWithNodes(doc) ==
    {k \in 1..3 : Shapes(doc)[k].there /\ Len(Shapes(doc)[k].g.Nodes) > 0}

\* the graph of the first shape of doc with nodes, the empty graph when no
\* shape has any (the document adds nothing to the merge)
FirstShapeWithNodes(doc) ==
    IF ShapesWithNodes(doc) = {} THEN EmptyGraph
    ELSE Shapes(doc)[Min(ShapesWithNodes(doc))].g

RECURSIVE ConcatFirstShapes(_)
\* the graphs FirstShapeWithNodes gives for docs, concatenated in input order
ConcatFirstShapes(docs) ==
    IF docs = << >> THEN EmptyGraph
    ELSE LET g == FirstShapeWithNodes(Head(docs))
             rest == ConcatFirstShapes(Tail(docs))
         IN Graph(g.Nodes \o rest.Nodes, g.Relationships \o rest.Relationships)

\* C20: every input document is loaded from the first of the shapes
\* result.graph, bare graph, bare top-level nodes/relationships whose node list
\* is not empty (a result envelope with an empty node list gives way to a later
\* shape that has nodes), and a document of no shape is a load failure.
LoaderShapeFallback ==
    /\ pc # "load" =>
          /\ allNodes = FirstOfEach(ConcatFirstShapes(inputFiles).Nodes, {})
          /\ allRels = ConcatFirstShapes(inputFiles).Relationships
    /\ \A i \in 1..Len(inputFiles) :
          (\A k \in 1..3 : ~Shapes(inputFiles[i])[k].there) => i \in Failing

\* the input documents the load loop has been through
DocsLoaded == IF pc = "load" THEN li - 1 ELSE Len(inputFiles)

RECURSIVE SumOfLengths(_, _)
\* the sum of the lengths of the relationship lists of the first n documents
\* that load
SumOfLengths(docs, n) ==
    IF n = 0 THEN 0
    ELSE SumOfLengths(docs, n - 1)
         + (IF loadGraph(docs[n]).err THEN 0 ELSE Len(loadGraph(docs[n]).rels))

RECURSIVE RelOrigin(_, _, _)
\* the document and the position in it that position p of the concatenation
\* of the relationship lists of docs (from document n on) comes from
RelOrigin(docs, n, p) ==
    LET len == IF loadGraph(docs[n]).err THEN 0 ELSE Len(loadGraph(docs[n]).rels)
    IN IF p <= len THEN [doc |-> n, pos |-> p] ELSE RelOrigin(docs, n + 1, p - len)

RelsIndexed ==
    IF pc = "load" THEN << >>
    ELSE IF pc = "index" THEN SubSeq(allRels, 1, ri - 1)
    ELSE allRels

\* the list-valued forward indices with their relationship types
ForwardIndices ==
    { [type |-> "IMPORTS", list |-> imports], [type |-> "calls", list |-> callsRel],
      [type |-> "CONTAINS_FILE", list |-> containsFile],
      [type |-> "DEFINES_FUNCTION", list |-> definesFunc],
      [type |-> "DECLARES_CLASS", list |-> declaresClass],
      [type |-> "DEFINES", list |-> definesType],
      [type |-> "CHILD_DIRECTORY", list |-> childDir],
      [type |-> "EXTENDS", list |-> extendsRel] }

\* the identifiers that start or end a relationship
Endpoints ==
    {allRels[i].StartNode : i \in 1..Len(allRels)} \cup {allRels[i].EndNode : i \in 1..Len(allRels)}

\* every forward list is the sequence of the end identifiers of the indexed
\* relationships of its type that start at its key, in relationship order;
\* each reverse list of IMPORTS and calls holds a as often as a's forward list
\* holds its key
IndexAsRelationships ==
    /\ \A x \in ForwardIndices :
          /\ DOMAIN x.list \subseteq Endpoints
          /\ \A a \in Endpoints : Get(x.list, a) = TargetsFrom(RelsIndexed, x.type, a)
    /\ DOMAIN importedBy \subseteq Endpoints
    /\ DOMAIN calledByRel \subseteq Endpoints
    /\ \A a \in Endpoints, b \in Endpoints :
          /\ Count(b, Get(imports, a)) = Count(a, Get(importedBy, b))
          /\ Count(b, Get(callsRel, a)) = Count(a, Get(calledByRel, b))

\* the relationship types of the index switch
RecognisedTypes ==
    {"IMPORTS", "calls", "CONTAINS_FILE", "DEFINES_FUNCTION", "DECLARES_CLASS",
     "DEFINES", "CHILD_DIRECTORY", "EXTENDS", "belongsTo", "partOf"}

\* a step of the indexing loop over a relationship of a type the switch does
\* not know changes no index
UnrecognisedIgnored ==
    (pc = "index" /\ ri <= Len(allRels) /\ ri' = ri + 1
        /\ allRels[ri].Type \notin RecognisedTypes)
    => UNCHANGED <<adjVars, ownVars>>

\* C22: at every point of the indexing loop and after it, each forward list
\* of a recognised list-valued type is exactly the end identifiers of the
\* relationships of that type indexed so far that start at its key, in
\* relationship order with multiplicity; for IMPORTS and calls b is as often
\* in the forward list of a as a is in the reverse list of b; and a
\* relationship of an unrecognised type changes no index.
IndexContentAndOrder == [][UnrecognisedIgnored]_vars /\ []IndexAsRelationships

\* C22 witness: file a imports b twice, around or beside a relationship of an
\* unknown type: its forward list is b, b and b's reverse list holds a twice
IndexedWithRepeats ==
    /\ pc = "done"
    /\ \E i \in 1..Len(allRels) : allRels[i].Type = "USES"
    /\ Get(imports, IdA) = <<IdB, IdB>>
    /\ Get(importedBy, IdB) = <<IdA, IdA>>

RECURSIVE MethodsOf(_)
\* the functions defined on the classes of classes, class after class
MethodsOf(classes) ==
    IF classes = << >> THEN << >>
    ELSE Get(definesFunc, Head(classes)) \o MethodsOf(Tail(classes))

RECURSIVE ClassesWithMethods(_)
\* each class of classes followed by the functions defined on it
ClassesWithMethods(classes) ==
    IF classes = << >> THEN << >>
    ELSE <<Head(classes)>> \o Get(definesFunc, Head(classes))
         \o ClassesWithMethods(Tail(classes))

\* the functions of file id, then all its classes, then the methods of those
\* classes
SearchClassesFirst(id) ==
    Get(definesFunc, id) \o Get(declaresClass, id) \o MethodsOf(Get(declaresClass, id))

\* the functions of file id, then each of its classes followed by its methods
SearchClassByClass(id) ==
    Get(definesFunc, id) \o ClassesWithMethods(Get(declaresClass, id))

\* the domain of the first identifier of search that has one, as <<domain>>
FirstDomainAlong(search) ==
    LET P == {i \in 1..Len(search) : Has(belongsToDomain, search[i])}
    IN IF P = {} THEN << >> ELSE <<belongsToDomain[search[Min(P)]]>>

\* the Files of the merged node list without a direct edge to a Domain
FilesWithoutDirectDomain ==
    {allNodes[i].ID : i \in {k \in 1..Len(allNodes) :
        hasLabel(allNodes[k], "File") /\ DirectEdges(allNodes[k].ID, "Domain", "") = {}}}

\* the domain of id, as <<domain>>, or << >>
DomainOf(id) == IF Has(belongsToDomain, id) THEN <<belongsToDomain[id]>> ELSE << >>

\* C23 as stated: right after domain inference, the domain of a File with no
\* direct domain is the first assigned domain found along its functions in
\* defines-function order, then all its classes in declares-class order, and
\* only then the functions defined on those classes; a later class comes
\* before a method of an earlier class.
InferenceClassesBeforeMethods ==
    pc = "inferSubdomain" =>
        \A id \in FilesWithoutDirectDomain :
            DomainOf(id) = FirstDomainAlong(SearchClassesFirst(id))

\* C23: right after domain inference, the domain of a File with no direct
\* domain is the first assigned domain found along its functions in
\* defines-function order and then, class by class in declares-class order,
\* the class followed by the functions defined on it; a method of an earlier
\* class comes before a later class.
InferenceClassByClass ==
    pc = "inferSubdomain" =>
        \A id \in FilesWithoutDirectDomain :
            DomainOf(id) = FirstDomainAlong(SearchClassByClass(id))

\* C23 witness: method m1 of the first class and the second class c2 both
\* have a domain, no function of F and not the first class has one, and F
\* takes the domain of m1
MethodBeforeLaterClass ==
    /\ pc = "inferSubdomain"
    /\ IdF \in FilesWithoutDirectDomain
    /\ ~Has(belongsToDomain, MemberId("f1")) /\ ~Has(belongsToDomain, MemberId("f2"))
    /\ ~Has(belongsToDomain, MemberId("c1"))
    /\ Get(belongsToDomain, MemberId("m1")) = DomainNameOf("m1")
    /\ Get(belongsToDomain, MemberId("c2")) = DomainNameOf("c2")
    /\ Get(belongsToDomain, IdF) = DomainNameOf("m1")

\* rel is a belongsTo edge to a Domain node or a partOf edge
DomainSideEdge(rel) ==
    \/ rel.Type = "partOf"
    \/ /\ rel.Type = "belongsTo"
       /\ \E i \in 1..Len(allNodes) :
             allNodes[i].ID = rel.EndNode /\ hasLabel(allNodes[i], "Domain")

RECURSIVE WithoutDomainSide(_)
\* rels without its belongsTo edges to Domain nodes and its partOf edges
WithoutDomainSide(rels) ==
    IF rels = << >> THEN << >>
    ELSE (IF DomainSideEdge(Head(rels)) THEN << >> ELSE <<Head(rels)>>)
         \o WithoutDomainSide(Tail(rels))

RECURSIVE IndexedSubdomains(_, _)
\* belongsToSubdomain as the relation indexer leaves it for rels
IndexedSubdomains(rels, m) ==
    IF rels = << >> THEN m
    ELSE IndexedSubdomains(Tail(rels), BelongsToSubdomainAfter(m, Head(rels), nodeLookup))

\* the final subdomain assignment of the run whose input is this run's input
\* without its belongsTo edges to Domain nodes and its partOf edges
SubdomainsWithoutDomainSide ==
    InferForFiles(allNodes, IndexedSubdomains(WithoutDomainSide(allRels), EmptyMap),
                  definesFunc, declaresClass)

\* C24: the final subdomain assignment of every node is the one of the run
\* whose input has no belongsTo edge to a Domain node and no partOf edge, so it
\* is the same for any two inputs that differ only in such edges.
InferenceIndependence ==
    Resolved => belongsToSubdomain = SubdomainsWithoutDomainSide

\* C24 witness: F ends with the subdomain inferred from its function f2 and
\* with no domain, while its method m1 has a domain edge that the run without
\* domain-side edges lacks
SubdomainWithoutDomain ==
    /\ pc = "done"
    /\ Get(belongsToSubdomain, IdF) = SubdomainNameOf("f2")
    /\ ~Has(belongsToDomain, IdF)
    /\ \E i \in 1..Len(allRels) : DomainSideEdge(allRels[i])

\* the node identifiers with the File label in the merged node list
FileIds ==
    {allNodes[i].ID : i \in {k \in 1..Len(allNodes) : hasLabel(allNodes[k], "File")}}

\* every identifier that is in lists[name] is there once, and it is there iff
\* it is a File of the merged node list whose assignment in owner is name
MembershipInverts(lists, owner) ==
    \A name \in (DOMAIN lists) \cup Range(owner) :
        \A id \in (DOMAIN owner) \cup Range(Get(lists, name)) :
            Count(id, Get(lists, name)) =
                IF id \in FileIds /\ Has(owner, id) /\ owner[id] = name THEN 1 ELSE 0

\* C25: after the resolver, an identifier is in the file list of domain name d
\* iff it is a node of the merged node list with the File label whose final
\* domain is d, and then exactly once; likewise for the subdomain file lists
\* and the final subdomains.
FileMembershipLists ==
    pc \in {"pass1", "pass2", "done"} =>
        /\ MembershipInverts(domainFiles, belongsToDomain)
        /\ MembershipInverts(subdomainFiles, belongsToSubdomain)

\* C25 witness: files F and G and the identifier z of no node all end in
\* domain dc1, and the file list of dc1 holds F and G once each and not z
TwoFilesOneDomain ==
    /\ pc = "done"
    /\ Get(belongsToDomain, IdF) = DomainNameOf("c1")
    /\ Get(belongsToDomain, IdG) = DomainNameOf("c1")
    /\ Get(belongsToDomain, IdGone) = DomainNameOf("c1")
    /\ Range(Get(domainFiles, DomainNameOf("c1"))) = {IdF, IdG}
    /\ Len(Get(domainFiles, DomainNameOf("c1"))) = 2

\* the document of the entry that pass 2 has just written, if it wrote one
LastWritten ==
    IF /\ pc = "pass2" /\ ei > 1
       /\ Has(outputDir, entries[ei - 1].slug)
       /\ outputDir[entries[ei - 1].slug].id = entries[ei - 1].node.ID
    THEN {outputDir[entries[ei - 1].slug]}
    ELSE {}

\* a neighbour of the sampler: its identifier and the direction of its edge
Toward(ids) == [i \in 1..Len(ids) |-> [id |-> ids[i], reverse |-> FALSE]]
From(ids) == [i \in 1..Len(ids) |-> [id |-> ids[i], reverse |-> TRUE]]
\* the one value of table m at key id, if it has one
OneOf(m, id) == IF Has(m, id) THEN <<m[id]>> ELSE << >>
\* the node registered in byName under the name that owner gives to id
NamedOwner(owner, byName, id) ==
    IF Has(owner, id) /\ Has(byName, owner[id]) THEN <<byName[owner[id]]>> ELSE << >>

\* the neighbours of entry e in the order of the sampler: imports,
\* imported-by, calls, called-by, defines-function, declares-class,
\* defines-type, extends, contains-file, child-directory, file-of, domain and
\* subdomain membership, structural domain/subdomain edges
NeighboursInPriority(e) ==
    LET id == e.node.ID IN
    Toward(Get(imports, id)) \o From(Get(importedBy, id))
    \o Toward(Get(callsRel, id)) \o From(Get(calledByRel, id))
    \o Toward(Get(definesFunc, id)) \o Toward(Get(declaresClass, id))
    \o Toward(Get(definesType, id)) \o Toward(Get(extendsRel, id))
    \o Toward(Get(containsFile, id)) \o Toward(Get(childDir, id))
    \o From(OneOf(fileOfFunc, id)) \o From(OneOf(fileOfClass, id))
    \o From(OneOf(fileOfType, id))
    \o Toward(NamedOwner(belongsToDomain, domainNodeByName, id))
    \o Toward(NamedOwner(belongsToSubdomain, subdomainNodeByName, id))
    \o (IF e.label = "Domain"
        THEN Toward(Get(domainSubdomains, getStr(e.node.Properties, "name")))
        ELSE << >>)
    \o (IF e.label = "Subdomain" /\ Get(partOfDomain, id) # << >>
        THEN Toward(NamedOwner(partOfDomain, domainNodeByName, id))
        ELSE << >>)

\* the export of document d follows the neighbours items of its entity: the
\* neighbour at position k gives an edge iff its node exists and fewer than 31
\* nodes were collected before it, and a node iff moreover it is new; nothing
\* else is in the export, which is there iff 2 nodes or more were collected
FollowsPriority(d, items) ==
    LET n == Len(items)
        Existing(k) == items[k].id \in DOMAIN nodeLookup
        Collected(k) == {d.id} \cup {items[j].id : j \in {q \in 1..k : Existing(q)}}
        Taken == {k \in 1..n : Existing(k) /\ Cardinality(Collected(k - 1)) < 31}
        Rank(k) == Cardinality({q \in Taken : q <= k})
        First(x) == IF x = d.id THEN 0 ELSE Min({k \in Taken : items[k].id = x})
        nodes == d.graph_data.Nodes
        edges == d.graph_data.Edges
    IN /\ d.graph_data.present <=>
             Cardinality({d.id} \cup {items[k].id : k \in Taken}) >= 2
       /\ d.graph_data.present =>
             /\ {nodes[i].ID : i \in 1..Len(nodes)} = {d.id} \cup {items[k].id : k \in Taken}
             /\ \A i, j \in 1..Len(nodes) : i < j => First(nodes[i].ID) < First(nodes[j].ID)
             /\ Len(edges) = Cardinality(Taken)
             /\ \A k \in Taken :
                   /\ edges[Rank(k)].Source = (IF items[k].reverse THEN items[k].id ELSE d.id)
                   /\ edges[Rank(k)].Target = (IF items[k].reverse THEN d.id ELSE items[k].id)

\* C26: the export of every document just written holds the neighbours of
\* its entity in the sampler's fixed order of relation sets; once 31 nodes are
\* collected no node and no edge of the rest of the current set or of a later
\* set is added; the export is left out iff fewer than 2 nodes were collected.
SamplerPriorityAndStop ==
    \A d \in LastWritten : FollowsPriority(d, NeighboursInPriority(entries[EntryOf(d)]))

\* C26 witness: the centre imports more than 30 files and is imported by
\* them: its export has 31 nodes and 30 edges, all of them imports of the
\* centre, and none of the imported-by set
StoppedBeforeLaterSet ==
    \E d \in LastWritten :
        /\ d.id = IdC
        /\ Len(Get(imports, IdC)) > 30 /\ Len(Get(importedBy, IdC)) > 30
        /\ Len(d.graph_data.Nodes) = 31
        /\ Len(d.graph_data.Edges) = 30
        /\ \A i \in 1..30 : d.graph_data.Edges[i].Source = IdC

\* ---- C27
\* the tables a rendering reads
RenderInputs == <<allNodes, nodeLookup, adjVars, ownVars, nameVars, groupVars,
                  memberVars, slugLookup, usedSlugs, entries>>
\* a step of pass 2 leaves every table a rendering reads as it was
RenderingFrame == (pc = "pass2") => UNCHANGED RenderInputs
\* every document the run wrote is the document its entity renders to once
\* all the others have been rendered
RenderedLastIsSame ==
    pc = "done" =>
        \A d \in Written : d = generateMarkdown(Context(entries[EntryOf(d)]))
\* C27: rendering an entity leaves the node set, every derived index, the
\* ownership assignment and the slug table unchanged, so the document of an
\* entity does not depend on the place of its rendering among the others.
RenderingIsReadOnly == [][RenderingFrame]_vars /\ []RenderedLastIsSame
\* a run that rendered an entity with an importers list of two or more and
\* at least one other entity
RenderedWithImporters ==
    /\ pc = "done"
    /\ \E d \in Written :
          /\ Len(Get(importedBy, d.id)) >= 2
          /\ \E d2 \in Written : d2.id \in Range(Get(importedBy, d.id))

\* ---- C28
\* the questions whose answer enumerates a list
ListQuestions ==
    {"What functions are defined in", "What does depend on", "What files import",
     "What does call", "What calls", "What subdomains are in",
     "What functions are in", "What subdirectories does contain"}
\* the list the answer to question q enumerates for the entity of context c
EnumeratedBy(c, q) ==
    LET id == c.node.ID
        name == IF getStr(c.node.Properties, "name") = << >> THEN id
                ELSE getStr(c.node.Properties, "name")
    IN CASE q = "What functions are defined in" -> Get(definesFunc, id)
         [] q = "What does depend on" -> Get(imports, id)
         [] q = "What files import" -> Get(importedBy, id)
         [] q = "What does call" -> Get(callsRel, id)
         [] q = "What calls" -> Get(calledByRel, id)
         [] q = "What subdomains are in" -> Get(domainSubdomains, name)
         [] q = "What functions are in" -> Get(subdomainFuncs, name)
         [] q = "What subdirectories does contain" -> Get(childDir, id)
\* 10 for the functions of a file, 8 for every other list
CapOf(q) == IF q = "What functions are defined in" THEN FuncListCap ELSE ListCap
\* the answer states the length of ids, lists at most cap names and counts
\* the rest in its suffix (more = 0: no suffix)
CutAt(faq, ids, cap) ==
    /\ faq.total = Len(ids)
    /\ Len(faq.listed) = (IF Len(ids) > cap THEN cap ELSE Len(ids))
    /\ faq.more = (IF Len(ids) > cap THEN Len(ids) - cap ELSE 0)
\* C28: in every FAQ answer that enumerates a list (functions of a file,
\* imports, importers, callees, callers, subdomains of a domain, functions of
\* a subdomain, subdirectories) a list longer than its cap (10 for a file's
\* functions, 8 otherwise) is cut to the cap and followed by "and N more"
\* with N the length minus the cap, a list within the cap is enumerated in
\* full with no suffix, and the stated total is the length of the full list.
FaqTruncation ==
    \A d \in Written : \A i \in FaqSections(d) :
        \A j \in 1..Len(d.sections[i].items) :
            LET faq == d.sections[i].items[j]
            IN faq.q \in ListQuestions =>
                  CutAt(faq, EnumeratedBy(Context(entries[EntryOf(d)]), faq.q),
                        CapOf(faq.q))
\* the same for the six lists other than the subdomains of a domain and the
\* subdirectories of a directory
FaqTruncationOfCappedLists ==
    \A d \in Written : \A i \in FaqSections(d) :
        \A j \in 1..Len(d.sections[i].items) :
            LET faq == d.sections[i].items[j]
            IN faq.q \in ListQuestions
                          \ {"What subdomains are in", "What subdirectories does contain"} =>
                  CutAt(faq, EnumeratedBy(Context(entries[EntryOf(d)]), faq.q),
                        CapOf(faq.q))
\* a Directory with more than 8 subdirectories whose answer names them all
SubdirectoriesAllListed ==
    \E d \in Written : \E i \in FaqSections(d) :
        \E j \in 1..Len(d.sections[i].items) :
            LET faq == d.sections[i].items[j]
            IN /\ faq.q = "What subdirectories does contain"
               /\ faq.total > ListCap
               /\ Len(faq.listed) = faq.total
               /\ faq.more = 0

\* ---- C29
\* the slug recipe of node n is usable: a File or Directory has a non-empty
\* path, a node of another label a non-empty name
RecipeUsable(n) ==
    IF n.Labels[1] \in {"File", "Directory"}
    THEN getStr(n.Properties, "path") # << >>
    ELSE getStr(n.Properties, "name") # << >>
\* the path lies under the synthetic repository root /app/repo-root/
DenotesRepoRoot(path) ==
    \E i \in 1..Len(path) :
        /\ i + Len(RepoRootMarker) - 1 <= Len(path)
        /\ SubSeq(path, i, i + Len(RepoRootMarker) - 1) = RepoRootMarker
Renderable(n) ==
    /\ Len(n.Labels) > 0
    /\ n.Labels[1] \in {"File", "Function", "Class", "Type", "Domain", "Subdomain",
                        "Directory"}
    /\ RecipeUsable(n)
    /\ ~(n.Labels[1] = "Directory" /\ DenotesRepoRoot(getStr(n.Properties, "path")))
\* after pass 1 the slug table and the entries of pass 2 hold the renderable
\* nodes and no other, and no document is of another node
RenderedSet ==
    Pass1Over =>
        /\ \A i \in 1..Len(allNodes) :
              /\ Has(slugLookup, allNodes[i].ID) <=> Renderable(allNodes[i])
              /\ (\E j \in 1..Len(entries) : entries[j].node = allNodes[i])
                    <=> Renderable(allNodes[i])
        /\ \A d \in Written :
              \E i \in 1..Len(allNodes) : allNodes[i].ID = d.id /\ Renderable(allNodes[i])
        /\ (pc = "done" /\ writeErrors = 0) =>
              count = Cardinality({i \in 1..Len(allNodes) : Renderable(allNodes[i])})
\* a step of pass 2 whose write succeeds leaves the document of its entry
\* under the slug of the entry
DocumentWritten ==
    (pc = "pass2" /\ ei' = ei + 1 /\ writeErrors' = writeErrors) =>
        /\ Has(outputDir', entries[ei].slug)
        /\ outputDir'[entries[ei].slug].id = entries[ei].node.ID
        /\ Renderable(entries[ei].node)
\* a node that is not rendered is in the indices and in the ownership
\* assignment all the same
UnrenderedStillUsed ==
    Pass1Over =>
        \A k \in 1..Len(allRels) :
            LET rel == allRels[k]
            IN /\ rel.Type = "IMPORTS" =>
                     /\ rel.EndNode \in Range(Get(imports, rel.StartNode))
                     /\ rel.StartNode \in Range(Get(importedBy, rel.EndNode))
               /\ (/\ rel.Type = "belongsTo"
                   /\ \E i \in 1..Len(allNodes) :
                         /\ allNodes[i].ID = rel.EndNode
                         /\ "Domain" \in Range(allNodes[i].Labels))
                     => Has(belongsToDomain, rel.StartNode)
ExportIds(g) == {g.Nodes[i].ID : i \in 1..Len(g.Nodes)}
\* the identifiers of the merged node set
MergedIds == {allNodes[i].ID : i \in 1..Len(allNodes)}
\* C30: in every emitted graph_data export the first node is the centre
\* entity, the node identifiers are pairwise distinct, every node is in the
\* merged node set, and every edge joins the centre and a node of the
\* export's node list; an endpoint that is in no graph gives neither a node
\* nor an edge.
ExportWellFormed ==
    \A d \in Written :
        LET g == d.graph_data
        IN g.present =>
              /\ g.Nodes[1].ID = d.id
              /\ Cardinality(ExportIds(g)) = Len(g.Nodes)
              /\ ExportIds(g) \subseteq MergedIds
              /\ \A i \in 1..Len(g.Edges) :
                    \/ g.Edges[i].Source = d.id /\ g.Edges[i].Target \in ExportIds(g)
                    \/ g.Edges[i].Target = d.id /\ g.Edges[i].Source \in ExportIds(g)
              /\ \A i \in 1..Len(g.Edges) :
                    {g.Edges[i].Source, g.Edges[i].Target} \subseteq MergedIds
\* the export of a centre that imports identifiers of no graph between
\* nodes of the graph: the nodes of the graph are there, each with its edge
DanglingLeftOut ==
    \E d \in Written :
        /\ d.id = IdC
        /\ d.graph_data.present
        /\ \E x \in Range(Get(imports, IdC)) : x \notin MergedIds
        /\ Len(d.graph_data.Nodes) >= 3
        /\ Len(d.graph_data.Edges) = Len(d.graph_data.Nodes) - 1
        /\ Len(Get(imports, IdC)) = 2 * Len(d.graph_data.Edges)

====
